---- MODULE Spec2Model ----
(***************************************************************************)
(* Colour-chart LUT generator (danielqpage/LUT): the LUT generation        *)
(* engine (lutGenerator), the helpers it uses (utils, rangeAnalyzer) and   *)
(* the call of the engine made by App.generateLUT.                         *)
(*                                                                         *)
(* Numbers.  The program computes in IEEE doubles.  The model computes in  *)
(* fixed point: a channel, a luminance or a distance x is the integer      *)
(* x * ONE, rounded towards minus infinity where a quotient is taken.  A   *)
(* double NaN is the reserved value NaN.  Sequences are 1-based, so the    *)
(* JavaScript index i is i + 1 here.                                       *)
(***************************************************************************)
EXTENDS Integers, Sequences, FiniteSets, TLC

VARIABLES
    pc,          \* position of the running call of generateWithAlgorithm
    algorithm,   \* argument algorithm
    refColors,   \* argument refColors
    camColors,   \* argument camColors
    lutSize,     \* argument lutSize
    options,     \* argument options (its rangeData member)
    lut,         \* the local array lut of create...LUT
    loopB, loopG, loopR,   \* the loop variables b, g, r of create...LUT
    touched,     \* the call has read refColors/camColors
    error,       \* the exception that left the call ("none" if none)
    lutData,     \* what the caller received: [returned, value]
    probe        \* one call of a function of the engine on its own

buildVars == <<pc, algorithm, refColors, camColors, lutSize, options, lut,
               loopB, loopG, loopR, touched, error, lutData>>

vars == <<buildVars, probe>>

----------------------------------------------------------------------------
(* Bounds of the model *)

MaxSize == 3        \* lattice sizes 0..MaxSize are tried
MaxPatches == 3     \* patch lists of length 0..MaxPatches are tried
MaxProbeLen == 5    \* lists of length 1..MaxProbeLen in single calls
MaxStatLen == 3     \* lists of 0..MaxStatLen values in the statistics
MaxDiscards == 2    \* calls of a session that discard placed markers
MaxRuns == 2        \* calls of App.generateLUT in a session

(* Fixed point *)

ONE == 1000                 \* 1.0 as a channel, luminance or distance
FINE == ONE                 \* a final quotient keeps FINE steps per 1/ONE
NaN == -(ONE * ONE * ONE)   \* the double NaN: an integer no number takes
ExactHitWeight == 1000000   \* 1e6, the weight of a neighbour at distance 0
WeightMax == 100 * ExactHitWeight  \* the largest weight of a call
BaryScale == ONE * ONE      \* a barycentric weight w is w * BaryScale
NeighborCount == 4          \* k of the neighbour searches

OUT == ONE * FINE           \* 1.0 as a channel of an interpolated colour

----------------------------------------------------------------------------
(* Integer helpers *)

Abs(x) == IF x < 0 THEN -x ELSE x

Min2(a, b) == IF a <= b THEN a ELSE b

Max2(a, b) == IF a >= b THEN a ELSE b

RECURSIVE RootSearch(_, _, _)
(* the largest x in lo..hi with x * x <= n *)
RootSearch(n, lo, hi) ==
    IF lo >= hi THEN lo
    ELSE LET mid == (lo + hi + 1) \div 2
         IN IF mid * mid <= n THEN RootSearch(n, mid, hi)
            ELSE RootSearch(n, lo, mid - 1)

(* Math.sqrt on integers: floor of the square root *)
Sqrt(n) == RootSearch(n, 0, 46340)

RECURSIVE MulMod(_, _, _)
(* <<q, r>> with a * b = q * c + r and 0 <= r < c, for 0 <= a < c; no      *)
(* intermediate value exceeds the larger of c and the quotient             *)
MulMod(a, b, c) ==
    IF b = 0 THEN <<0, 0>>
    ELSE LET h == MulMod(a, b \div 2, c)
             dq == IF h[2] >= c - h[2] THEN 1 ELSE 0
             dr == IF h[2] >= c - h[2] THEN h[2] - (c - h[2]) ELSE h[2] + h[2]
             odd == b % 2 = 1
             aq == IF odd /\ dr >= c - a THEN 1 ELSE 0
             ar == IF ~odd THEN dr
                   ELSE IF dr >= c - a THEN dr - (c - a) ELSE dr + a
         IN <<2 * h[1] + dq + aq, ar>>

(* <<floor(a * b / c), (a * b) mod c>> for a, b >= 0 and c > 0 *)
MulDiv(a, b, c) ==
    LET h == MulMod(a % c, b, c)
    IN <<(a \div c) * b + h[1], h[2]>>

RECURSIVE SumSeq(_)
SumSeq(s) == IF s = <<>> THEN 0 ELSE Head(s) + SumSeq(Tail(s))

----------------------------------------------------------------------------
(* Positive doubles, bit for bit: [exp, mant] is the number mant * 2^exp,   *)
(* mant an integer of MantissaBits binary digits written as limbs of        *)
(* LimbBits digits, the most significant first.  Sums and quotients round   *)
(* to nearest, ties to even, as IEEE 754 arithmetic does.                   *)

MantissaBits == 53
LimbBits == 20

RECURSIVE Pow2(_)
Pow2(k) == IF k = 0 THEN 1 ELSE 2 * Pow2(k - 1)

Limb == Pow2(LimbBits)

RECURSIVE BitLen(_)
(* the number of binary digits of n >= 0 *)
BitLen(n) == IF n = 0 THEN 0 ELSE 1 + BitLen(n \div 2)

(* limbs without leading zero limbs *)
BigStrip(x) ==
    IF \A i \in 1..Len(x) : x[i] = 0 THEN <<>>
    ELSE LET first == CHOOSE i \in 1..Len(x) :
                          x[i] # 0 /\ \A j \in 1..(i - 1) : x[j] = 0
         IN SubSeq(x, first, Len(x))

(* limbs with leading zero limbs up to n limbs *)
BigPad(x, n) == [i \in 1..(n - Len(x)) |-> 0] \o x

BigBitLen(x) ==
    LET y == BigStrip(x)
    IN IF y = <<>> THEN 0 ELSE (Len(y) - 1) * LimbBits + BitLen(y[1])

RECURSIVE BigAddFrom(_, _, _, _)
(* the limbs i..1 of x + y + carry, for x and y of equal length *)
BigAddFrom(x, y, i, carry) ==
    IF i = 0 THEN (IF carry = 0 THEN <<>> ELSE <<carry>>)
    ELSE LET t == x[i] + y[i] + carry
         IN Append(BigAddFrom(x, y, i - 1, t \div Limb), t % Limb)

BigAdd(x, y) ==
    LET n == Max2(Len(x), Len(y))
    IN BigStrip(BigAddFrom(BigPad(x, n), BigPad(y, n), n, 0))

(* x * 2^k: whole limbs first, then the k % LimbBits bits left *)
BigShiftLeft(x, k) ==
    LET bits == k % LimbBits
        cut == Pow2(LimbBits - bits)
        y == <<0>> \o x \o [i \in 1..(k \div LimbBits) |-> 0]
    IN BigStrip([i \in 1..Len(y) |->
                   (y[i] % cut) * Pow2(bits)
                   + (IF i < Len(y) THEN y[i + 1] \div cut ELSE 0)])

(* [big |-> floor(x / 2^k), sticky |-> a digit 1 was dropped] *)
BigShiftRight(x, k) ==
    LET whole == Min2(k \div LimbBits, Len(x))
        y == SubSeq(x, 1, Len(x) - whole)
        r == k % LimbBits
        cut == Pow2(r)
        lost == \E i \in (Len(x) - whole + 1)..Len(x) : x[i] # 0
    IN [big |-> BigStrip([i \in 1..Len(y) |->
                   y[i] \div cut
                   + (IF i > 1 THEN (y[i - 1] % cut) * Pow2(LimbBits - r) ELSE 0)]),
        sticky |-> lost \/ (y # <<>> /\ y[Len(y)] % cut # 0)]

RECURSIVE BigDivFrom(_, _, _, _, _)
(* long division of the limbs from i on by n < 2^10, r the remainder       *)
(* carried in and acc the quotient so far: <<quotient, remainder>>         *)
BigDivFrom(x, n, i, r, acc) ==
    IF i > Len(x) THEN <<BigStrip(acc), r>>
    ELSE LET t == r * Limb + x[i]
         IN BigDivFrom(x, n, i + 1, t % n, Append(acc, t \div n))

BigDivSmall(x, n) == BigDivFrom(x, n, 1, 0, <<>>)

BigIsOdd(x) == x # <<>> /\ x[Len(x)] % 2 = 1

(* the double nearest to x * 2^exp (+ a rest below the last digit of x     *)
(* when sticky), for x > 0                                                 *)
RoundToDouble(x, exp, sticky) ==
    LET len == BigBitLen(x)
        limbs == (MantissaBits + LimbBits - 1) \div LimbBits
    IN IF len <= MantissaBits
       THEN [exp |-> exp - (MantissaBits - len),
             mant |-> BigPad(BigShiftLeft(BigStrip(x), MantissaBits - len), limbs)]
       ELSE LET drop == len - MantissaBits
                withGuard == BigShiftRight(BigStrip(x), drop - 1)
                guard == BigIsOdd(withGuard.big)
                kept == BigShiftRight(withGuard.big, 1).big
                up == guard /\ (sticky \/ withGuard.sticky \/ BigIsOdd(kept))
                raised == IF up THEN BigAdd(kept, <<1>>) ELSE kept
            IN IF BigBitLen(raised) > MantissaBits
               THEN [exp |-> exp + drop + 1,
                     mant |-> BigPad(BigShiftRight(raised, 1).big, limbs)]
               ELSE [exp |-> exp + drop, mant |-> BigPad(raised, limbs)]

(* a + b in double arithmetic *)
DoubleAdd(a, b) ==
    LET hi == IF a.exp >= b.exp THEN a ELSE b
        lo == IF a.exp >= b.exp THEN b ELSE a
        d == hi.exp - lo.exp
    IN IF d > MantissaBits + 2 THEN hi
       ELSE RoundToDouble(BigAdd(BigShiftLeft(BigStrip(hi.mant), d), lo.mant),
                          lo.exp, FALSE)

RECURSIVE ScaleRatio(_, _, _)
(* <<p', q', s>> with p / q = (p' / q') * 2^(-s) and 1 <= p' / q' < 2 *)
ScaleRatio(p, q, s) ==
    IF p < q THEN ScaleRatio(2 * p, q, s + 1)
    ELSE IF p >= 2 * q THEN ScaleRatio(p, 2 * q, s - 1)
    ELSE <<p, q, s>>

----------------------------------------------------------------------------
(* utils *)

IsNaNColor(c) == c[1] = NaN \/ c[2] = NaN \/ c[3] = NaN

NaNColor == <<NaN, NaN, NaN>>

(* clamp without its upper bound: Math.max(min, value) *)
clampNoUpper(value, min, max) ==
    IF value = NaN THEN NaN ELSE Max2(min, value)

(* utils.clamp(value, min, max); Math.min and Math.max return NaN for a    *)
(* NaN argument.  The default bounds 0 and 1 are clamp(v, 0, ONE) for a    *)
(* value in steps of 1/ONE and clamp(v, 0, OUT) for one in steps of 1/OUT  *)
clamp(value, min, max) ==
    IF value = NaN THEN NaN ELSE Max2(min, Min2(max, value))

(* utils.colorDistance *)
colorDistance(c1, c2) ==
    IF IsNaNColor(c1) \/ IsNaNColor(c2) THEN NaN
    ELSE LET dr == c1[1] - c2[1]
             dg == c1[2] - c2[2]
             db == c1[3] - c2[3]
         IN Sqrt(dr * dr + dg * dg + db * db)

(* utils.getLuminance *)
getLuminance(c) ==
    IF IsNaNColor(c) THEN NaN
    ELSE (2126 * c[1] + 7152 * c[2] + 722 * c[3]) \div 10000

----------------------------------------------------------------------------
(* Neighbour search *)

RECURSIVE InsertSorted(_, _)
(* e, which came after every element of sorted, goes behind the elements   *)
(* it is not before (the sort is stable).  e is before last when the       *)
(* comparator (a, b) => a.distance - b.distance is negative; a NaN         *)
(* difference counts as 0 in Array.prototype.sort                          *)
InsertSorted(e, sorted) ==
    IF sorted = <<>> THEN <<e>>
    ELSE LET last == sorted[Len(sorted)]
         IN IF e.distance # NaN /\ last.distance # NaN /\ e.distance < last.distance
            THEN Append(InsertSorted(e, SubSeq(sorted, 1, Len(sorted) - 1)), last)
            ELSE Append(sorted, e)

RECURSIVE SortPrefix(_, _)
SortPrefix(ds, n) ==
    IF n = 0 THEN <<>> ELSE InsertSorted(ds[n], SortPrefix(ds, n - 1))

(* the list of distances left in the order of the colours *)
UnsortedDistances(ds) == ds

(* distances.sort((a, b) => a.distance - b.distance) *)
SortByDistance(ds) == SortPrefix(ds, Len(ds))

(* Array.prototype.slice(0, k) *)
Slice(s, k) == SubSeq(s, 1, Min2(k, Len(s)))

(* lutGenerator.findNearestNeighbors *)
findNearestNeighbors(targetColor, colors, k) ==
    LET distances == [i \in 1..Len(colors) |->
                        [index |-> i,
                         distance |-> colorDistance(targetColor, colors[i])]]
    IN Slice(SortByDistance(distances), k)

(* lutGenerator.findNearestNeighborsWithLuminance; luminances[index] is    *)
(* undefined, and the distance NaN, beyond the end of luminances           *)
findNearestNeighborsWithLuminance(targetColor, targetLum, colors, luminances, k) ==
    LET distances == [i \in 1..Len(colors) |->
            LET colorDist == colorDistance(targetColor, colors[i])
                lumDist == IF i > Len(luminances) \/ targetLum = NaN
                              \/ luminances[i] = NaN
                           THEN NaN ELSE Abs(targetLum - luminances[i])
            IN [index |-> i,
                distance |-> IF colorDist = NaN \/ lumDist = NaN THEN NaN
                             ELSE colorDist * 1 + lumDist * 2]]
    IN Slice(SortByDistance(distances), k)

----------------------------------------------------------------------------
(* Inverse distance weighting *)

HasNaNDistance(neighbors) ==
    \E j \in 1..Len(neighbors) : neighbors[j].distance = NaN

(* the weights without the case distance === 0 of the code: a neighbour   *)
(* at distance 0 weighs as much as one at the smallest distance above 0    *)
(* of the call                                                             *)
inverseSquareWeightsNoHit(neighbors, unit2) ==
    LET positive == {neighbors[j].distance : j \in 1..Len(neighbors)} \ {0}
        d1 == IF positive = {} THEN 1
              ELSE CHOOSE d \in positive : \A e \in positive : d <= e
    IN [j \in 1..Len(neighbors) |->
          LET d == neighbors[j].distance
          IN IF d = 0 THEN WeightMax
             ELSE MulDiv(WeightMax, d1 * d1, d * d)[1]]

(* weight = distance === 0 ? 1e6 : 1 / (distance * distance), for every    *)
(* neighbour of one call.  unit2 is the square of the integer that stands  *)
(* for the distance 1.  A factor common to the weights of a call cancels   *)
(* in sum(c * w) / sum(w); it is chosen so that the weight of the nearest  *)
(* neighbour is WeightMax.                                                 *)
inverseSquareWeights(neighbors, unit2) ==
    LET d1 == neighbors[1].distance
    IN [j \in 1..Len(neighbors) |->
          LET d == neighbors[j].distance
          IN IF d = 0 THEN WeightMax
             ELSE IF d1 = 0
                  THEN ((WeightMax \div ExactHitWeight) * unit2) \div (d * d)
                  ELSE MulDiv(WeightMax, d1 * d1, d * d)[1]]

(* sum(values[j] * weights[j]) / sum(weights), in steps of 1/fine of the   *)
(* unit of values; 0 / 0 is NaN, and so is a sum with a NaN term.          *)
(* values[j] >= 0 otherwise.                                               *)
weightedQuotient(values, weights, fine) ==
    LET totalWeight == SumSeq(weights)
        parts == [j \in 1..Len(values) |-> MulDiv(values[j], weights[j], totalWeight)]
        whole == SumSeq([j \in 1..Len(values) |-> parts[j][1]])
        rest == SumSeq([j \in 1..Len(values) |-> parts[j][2]])
    IN IF totalWeight = 0 \/ (\E j \in 1..Len(values) : values[j] = NaN) THEN NaN
       ELSE (whole + rest \div totalWeight) * fine
            + MulDiv(rest % totalWeight, fine, totalWeight)[1]

(* an interpolator returns [threw, color]: cameraColors[index] is          *)
(* undefined beyond the end of cameraColors and reading its channel throws *)
(* a TypeError                                                             *)
Thrown == [threw |-> TRUE, color |-> NaNColor]

Returned(c) == [threw |-> FALSE, color |-> c]

IndexBeyond(neighbors, list) ==
    \E j \in 1..Len(neighbors) : neighbors[j].index > Len(list)

(* lutGenerator.interpolateColor *)
interpolateColor(inputColor, referenceColors, cameraColors) ==
    LET neighbors == findNearestNeighbors(inputColor, referenceColors, NeighborCount)
    IN IF IndexBeyond(neighbors, cameraColors) THEN Thrown
       ELSE IF neighbors = <<>> \/ HasNaNDistance(neighbors) THEN Returned(NaNColor)
       ELSE LET weights == inverseSquareWeights(neighbors, ONE * ONE)
            IN Returned([i \in 1..3 |->
                 clamp(weightedQuotient(
                     [j \in 1..Len(neighbors) |-> cameraColors[neighbors[j].index][i]],
                     weights, FINE), 0, OUT)])

----------------------------------------------------------------------------
(* rangeAnalyzer *)

(* utils.isValidColor *)
isValidColor(color) ==
    \A i \in 1..3 : color[i] # NaN /\ color[i] >= 0 /\ color[i] <= ONE

(* [...luminances].sort((a, b) => a - b) *)
SortNumbers(values) ==
    LET sorted == SortByDistance([i \in 1..Len(values) |->
                                    [index |-> i, distance |-> values[i]]])
    IN [i \in 1..Len(values) |-> sorted[i].distance]

(* The statistics of utils.  A value is a number of [0, 1] in steps of     *)
(* 1/ONE, a result is in steps of 1/OUT.                                   *)

(* the median of integers: the middle of the sorted values, the mean of    *)
(* the two middle ones for an even count; 0 for no values                  *)
MedianOf(values) ==
    IF Len(values) = 0 THEN 0
    ELSE LET sorted == SortNumbers(values)
             mid == Len(sorted) \div 2
         IN IF Len(sorted) % 2 = 1 THEN sorted[mid + 1]
            ELSE (sorted[mid] + sorted[mid + 1]) \div 2

(* utils.calculateMedian *)
calculateMedian(values) ==
    MedianOf([i \in 1..Len(values) |-> values[i] * FINE])

(* utils.calculateMAD(values), the median computed by the function *)
calculateMAD(values) ==
    IF Len(values) = 0 THEN 0
    ELSE LET median == calculateMedian(values)
         IN MedianOf([i \in 1..Len(values) |-> Abs(values[i] * FINE - median)])

(* values.reduce((sum, v) => sum + v, 0) / values.length *)
MeanOf(values) == (SumSeq(values) * FINE) \div Len(values)

(* the double 0 *)
DoubleZero == [exp |-> 0, mant |-> <<0, 0, 0>>]

(* the double the decimal literal v / ONE denotes, for 0 <= v <= ONE *)
DoubleOfValue(v) ==
    IF v = 0 THEN DoubleZero
    ELSE LET t == ScaleRatio(v, ONE, 0)
             qr == BigDivSmall(<<t[1], 0, 0, 0>>, t[2])
         IN RoundToDouble(qr[1], -t[3] - 3 * LimbBits, qr[2] # 0)

RECURSIVE DoubleTotal(_, _)
(* the sum of the first n values as reduce adds them in doubles, from 0 *)
DoubleTotal(values, n) ==
    IF n = 0 THEN DoubleZero
    ELSE LET before == DoubleTotal(values, n - 1)
             v == DoubleOfValue(values[n])
         IN IF before = DoubleZero THEN v
            ELSE IF v = DoubleZero THEN before
            ELSE DoubleAdd(before, v)

(* utils.calculateStandardDeviation, in fixed point *)
calculateStandardDeviation(values) ==
    IF Len(values) = 0 THEN 0
    ELSE LET mean == MeanOf(values)
             squares == [i \in 1..Len(values) |->
                           MulDiv(Abs(values[i] * FINE - mean),
                                  Abs(values[i] * FINE - mean), OUT)[1]]
             variance == SumSeq(squares) \div Len(values)
         IN Sqrt(variance) * FINE

(* the double that utils.calculateStandardDeviation returns is 0: the sum  *)
(* of the (v - mean)^2 is 0 exactly if every v equals the mean the doubles *)
(* gave, and the square of a difference of two values does not underflow;  *)
(* the mean of a non-empty list is the total divided in doubles by the     *)
(* length, an integer in 1..1000                                           *)
calculateStandardDeviationIsZero(values) ==
    \/ Len(values) = 0
    \/ LET total == DoubleTotal(values, Len(values))
           qr == BigDivSmall(total.mant \o <<0>>, Len(values))
           mean == IF total = DoubleZero THEN DoubleZero
                   ELSE RoundToDouble(qr[1], total.exp - LimbBits, qr[2] # 0)
       IN \A i \in 1..Len(values) : DoubleOfValue(values[i]) = mean

(* the coefficient of variation without its division by the mean *)
calculateCVNoDivide(values) ==
    IF Len(values) = 0 THEN 0
    ELSE IF SumSeq(values) = 0 THEN 0
    ELSE calculateStandardDeviation(values)

(* utils.calculateCV, in fixed point; the mean of values, which are not    *)
(* negative, is 0 if and only if they are all 0                            *)
calculateCV(values) ==
    IF Len(values) = 0 THEN 0
    ELSE IF SumSeq(values) = 0 THEN 0
    ELSE MulDiv(calculateStandardDeviation(values), OUT, MeanOf(values))[1]

(* the double that utils.calculateCV returns is 0 *)
calculateCVIsZero(values) ==
    \/ Len(values) = 0
    \/ SumSeq(values) = 0
    \/ calculateStandardDeviationIsZero(values)

(* rangeAnalyzer.assessRangeQuality, the score in steps of 1/ONE.  The     *)
(* fractions are compared exactly: mean = sum / n, clipping = count / n,   *)
(* and uniformity < 0.5 if and only if the standard deviation of the ten   *)
(* normalised counts c / n is above 0.05, that is 8 * sum(c^2) > n^2; at   *)
(* 8 * sum(c^2) = n^2 the rounding of the doubles decides (tieIsPoor).     *)
assessRangeQuality(luminances, tieIsPoor) ==
    LET n == Len(luminances)
        sorted == SortNumbers(luminances)
        range == sorted[n] - sorted[1]
        hasGoodRange == range > (3 * ONE) \div 10
        total == SumSeq(luminances)
        isWellCentered == 10 * total > 2 * n * ONE /\ 10 * total < 8 * n * ONE
        dark == Cardinality({i \in 1..n : 100 * luminances[i] < 2 * ONE})
        bright == Cardinality({i \in 1..n : 100 * luminances[i] > 98 * ONE})
        hasClipping == 100 * dark > 5 * n \/ 100 * bright > 5 * n
        counts == [b \in 0..9 |->
                     Cardinality({i \in 1..n :
                         Min2((luminances[i] * 10) \div ONE, 9) = b})]
        squares == SumSeq([b \in 1..10 |-> counts[b - 1] * counts[b - 1]])
        poorUniformity == 8 * squares > n * n \/ (8 * squares = n * n /\ tieIsPoor)
        score == ONE - (IF hasGoodRange THEN 0 ELSE (3 * ONE) \div 10)
                     - (IF isWellCentered THEN 0 ELSE (2 * ONE) \div 10)
                     - (IF hasClipping THEN (3 * ONE) \div 10 ELSE 0)
                     - (IF poorUniformity THEN (2 * ONE) \div 10 ELSE 0)
    IN [score |-> Max2(0, score),
        hasGoodRange |-> hasGoodRange,
        isWellCentered |-> isWellCentered,
        hasClipping |-> hasClipping,
        poorUniformity |-> poorUniformity]

(* the range analysis that takes the 95th percentile for the robust        *)
(* minimum and the 5th for the robust maximum                              *)
analyzeLuminanceRangeSwapped(patches) ==
    LET luminances == [i \in 1..Len(patches) |->
                          IF ~isValidColor(patches[i]) THEN ONE \div 2
                          ELSE getLuminance(patches[i])]
        sorted == SortNumbers(luminances)
        percentile5 == sorted[(Len(sorted) * 95) \div 100 + 1]
        percentile95 == sorted[(Len(sorted) * 5) \div 100 + 1]
    IN [min |-> sorted[1],
        max |-> sorted[Len(sorted)],
        mean |-> SumSeq(luminances) \div Len(luminances),
        robustMin |-> percentile5,
        robustMax |-> percentile95,
        range |-> percentile95 - percentile5,
        luminances |-> luminances]

(* rangeAnalyzer.analyzeLuminanceRange for a non-empty list (it throws for *)
(* an empty one): the members the range mapping reads; Math.floor of       *)
(* length * 0.05 and of length * 0.95 in doubles are the integer quotients *)
(* for every length up to 2000                                             *)
analyzeLuminanceRange(patches) ==
    LET luminances == [i \in 1..Len(patches) |->
                          IF ~isValidColor(patches[i]) THEN ONE \div 2
                          ELSE getLuminance(patches[i])]
        sorted == SortNumbers(luminances)
        percentile5 == sorted[(Len(sorted) * 5) \div 100 + 1]
        percentile95 == sorted[(Len(sorted) * 95) \div 100 + 1]
    IN [min |-> sorted[1],
        max |-> sorted[Len(sorted)],
        mean |-> SumSeq(luminances) \div Len(luminances),
        robustMin |-> percentile5,
        robustMax |-> percentile95,
        range |-> percentile95 - percentile5,
        luminances |-> luminances]

(* the range mapping whose offset is the robust minimum of the camera *)
calculateRangeMappingKeepOffset(refRange, camRange) ==
    [present |-> TRUE,
     rangeRatio |-> (camRange.range * ONE) \div Max2(refRange.range, 1),
     luminanceOffset |-> camRange.robustMin,
     refLuminances |-> refRange.luminances,
     camLuminances |-> camRange.luminances]

(* rangeAnalyzer.calculateRangeMapping: the members the engine reads;      *)
(* rangeRatio is a ratio in steps of 1/ONE, 0.001 is the integer 1         *)
calculateRangeMapping(refRange, camRange) ==
    LET rangeRatio == (camRange.range * ONE) \div Max2(refRange.range, 1)
        luminanceOffset == camRange.robustMin
                           - (refRange.robustMin * rangeRatio) \div ONE
    IN [present |-> TRUE,
        rangeRatio |-> rangeRatio,
        luminanceOffset |-> luminanceOffset,
        refLuminances |-> refRange.luminances,
        camLuminances |-> camRange.luminances]

(* rangeAnalyzer.calculateSkewness, in steps of 1/ONE.  For three or more  *)
(* equal values the deviations (v - mean) are 0 and the result is 0 if the *)
(* doubles give the mean exactly (rounding 0); if they give a mean just    *)
(* beside the value, std is the size of that deviation, every              *)
(* (v - mean) / std is 1 or every one is -1, and so is the result:         *)
(* rounding is 0, 1 or -1.                                                 *)
calculateSkewness(values, rounding) ==
    LET n == Len(values)
        \* x * x * x / (ONE * ONE) for a signed x in steps of 1/ONE
        Cube(x) == (IF x < 0 THEN -1 ELSE 1)
                   * MulDiv(MulDiv(Abs(x), Abs(x), ONE)[1], Abs(x), ONE)[1]
        mean == SumSeq(values) \div n
        squares == [i \in 1..n |-> (values[i] - mean) * (values[i] - mean)]
        std == Sqrt(SumSeq(squares) \div n)
    IN IF n < 3 THEN 0
       ELSE IF \A i, j \in 1..n : values[i] = values[j] THEN rounding * ONE
       ELSE IF std = 0 THEN 0
       ELSE SumSeq([i \in 1..n |-> Cube(((values[i] - mean) * ONE) \div std)]) \div n

(* the compatibility assessment that takes a span ratio of exactly 1 for   *)
(* a span that differs                                                     *)
assessRangeCompatibilityStrict(refRange, camRange, refRounding, camRounding) ==
    LET spanSimilar == camRange.range > Max2(refRange.range, 1)
        meanSimilar == Abs(refRange.mean - camRange.mean) < 3 * (ONE \div 10)
        distributionSimilar ==
            Abs(calculateSkewness(refRange.luminances, refRounding)
                - calculateSkewness(camRange.luminances, camRounding)) < ONE
    IN [score |-> Max2(0, ONE - (IF spanSimilar THEN 0 ELSE 4 * (ONE \div 10))
                              - (IF meanSimilar THEN 0 ELSE 3 * (ONE \div 10))
                              - (IF distributionSimilar THEN 0 ELSE 3 * (ONE \div 10))),
        spanSimilar |-> spanSimilar,
        meanSimilar |-> meanSimilar,
        distributionSimilar |-> distributionSimilar,
        issues |-> <<>>]

(* rangeAnalyzer.assessRangeCompatibility: score, the three sub-checks     *)
(* and issues.  spanRatio = camSpan / Math.max(refSpan, 0.001) is compared *)
(* with 0.5 and 2.0 exactly, by cross multiplication.                      *)
assessRangeCompatibility(refRange, camRange, refRounding, camRounding) ==
    LET refSpan == Max2(refRange.range, 1)
        camSpan == camRange.range
        spanSimilar == 2 * camSpan > refSpan /\ camSpan < 2 * refSpan
        meanSimilar == Abs(refRange.mean - camRange.mean) < 3 * (ONE \div 10)
        distributionSimilar ==
            Abs(calculateSkewness(refRange.luminances, refRounding)
                - calculateSkewness(camRange.luminances, camRounding)) < ONE
        spanIssue == IF spanSimilar THEN <<>>
                     ELSE IF camSpan > 2 * refSpan THEN <<"Camera range much larger">>
                     ELSE <<"Camera range much smaller">>
        meanIssue == IF meanSimilar THEN <<>>
                     ELSE IF camRange.mean > refRange.mean
                          THEN <<"Camera exposure too bright">>
                     ELSE <<"Camera exposure too dark">>
        distributionIssue == IF distributionSimilar THEN <<>>
                             ELSE <<"Different luminance distributions">>
    IN [score |-> Max2(0, ONE - (IF spanSimilar THEN 0 ELSE 4 * (ONE \div 10))
                              - (IF meanSimilar THEN 0 ELSE 3 * (ONE \div 10))
                              - (IF distributionSimilar THEN 0 ELSE 3 * (ONE \div 10))),
        spanSimilar |-> spanSimilar,
        meanSimilar |-> meanSimilar,
        distributionSimilar |-> distributionSimilar,
        issues |-> spanIssue \o meanIssue \o distributionIssue]

(* options without a rangeData member *)
NoRangeData ==
    [present |-> FALSE, rangeRatio |-> 0, luminanceOffset |-> 0,
     refLuminances |-> <<>>, camLuminances |-> <<>>]

----------------------------------------------------------------------------
(* Range-aware and tetrahedral interpolation *)

(* interpolateWithRangeMapping: targetLuminance, the input luminance       *)
(* mapped to camera space                                                  *)
mappedLuminance(inputColor, rangeData) ==
    IF getLuminance(inputColor) = NaN THEN NaN
    ELSE (getLuminance(inputColor) * rangeData.rangeRatio) \div ONE
         + rangeData.luminanceOffset

(* interpolateWithRangeMapping: neighbors, found with the luminance of the *)
(* input colour as targetLum                                               *)
rangeMappingNeighbors(inputColor, referenceColors, rangeData) ==
    findNearestNeighborsWithLuminance(inputColor, getLuminance(inputColor),
        referenceColors, rangeData.refLuminances, NeighborCount)

(* lutGenerator.interpolateWithRangeMapping *)
interpolateWithRangeMapping(inputColor, referenceColors, cameraColors, rangeData) ==
    LET targetLuminance == mappedLuminance(inputColor, rangeData)
        neighbors == rangeMappingNeighbors(inputColor, referenceColors, rangeData)
        corrected(index) ==
            IF index <= Len(rangeData.camLuminances)
               /\ rangeData.camLuminances[index] > 1
            THEN [i \in 1..3 |->
                    IF cameraColors[index][i] = NaN \/ targetLuminance = NaN
                    THEN NaN
                    ELSE clamp((cameraColors[index][i] * targetLuminance)
                               \div rangeData.camLuminances[index], 0, ONE)]
            ELSE cameraColors[index]
    IN IF IndexBeyond(neighbors, cameraColors) THEN Thrown
       ELSE IF neighbors = <<>> \/ HasNaNDistance(neighbors) THEN Returned(NaNColor)
       ELSE LET weights == inverseSquareWeights(neighbors, ONE * ONE)
            IN Returned([i \in 1..3 |->
                 clamp(weightedQuotient(
                     [j \in 1..Len(neighbors) |-> corrected(neighbors[j].index)[i]],
                     weights, FINE), 0, OUT)])

(* lutGenerator.calculateBarycentricWeights, for distances without NaN *)
calculateBarycentricWeights(neighbors) ==
    LET distances == [j \in 1..Len(neighbors) |-> neighbors[j].distance]
        totalDist == SumSeq(distances)
    IN IF totalDist = 0 THEN <<BaryScale, 0, 0, 0>>
       ELSE [j \in 1..Len(distances) |->
               MulDiv(totalDist - distances[j], BaryScale, totalDist * 3)[1]]

(* lutGenerator.tetrahedralInterpolation; 0.001 is BaryScale \div 1000 *)
tetrahedralInterpolation(inputColor, referenceColors, cameraColors) ==
    LET neighbors == findNearestNeighbors(inputColor, referenceColors, NeighborCount)
    IN IF HasNaNDistance(neighbors)
       THEN (IF IndexBeyond(neighbors, cameraColors) THEN Thrown
             ELSE Returned(NaNColor))
       ELSE LET weights == calculateBarycentricWeights(neighbors)
                totalWeight == SumSeq([j \in 1..Len(neighbors) |-> weights[j]])
                interpolatedColor == [i \in 1..3 |->
                    IF \E j \in 1..Len(neighbors) :
                          cameraColors[neighbors[j].index][i] = NaN
                    THEN NaN
                    ELSE SumSeq([j \in 1..Len(neighbors) |->
                              cameraColors[neighbors[j].index][i] * weights[j]])]
            IN IF IndexBeyond(neighbors, cameraColors) THEN Thrown
               ELSE Returned([i \in 1..3 |->
                      IF interpolatedColor[i] = NaN THEN NaN
                      ELSE clamp(MulDiv(interpolatedColor[i], FINE,
                                        Max2(totalWeight, BaryScale \div 1000))[1],
                                 0, OUT)])

----------------------------------------------------------------------------
(* Colour spaces.  RGB, linear RGB and XYZ values and the arguments of f    *)
(* are in steps of 1/ONE, Lab values in steps of 1/LabOne; the matrix       *)
(* coefficients are rounded to five decimals.                               *)

LabOne == ONE \div 100       \* 1.0 as a Lab value
LabShift == 5 * ONE    \* added to Lab values to average non-negative numbers

RECURSIVE CubeRootSearch(_, _, _)
(* the largest y in lo..hi with y * y * y <= n *)
CubeRootSearch(n, lo, hi) ==
    IF lo >= hi THEN lo
    ELSE LET mid == (lo + hi + 1) \div 2
         IN IF mid * mid * mid <= n THEN CubeRootSearch(n, mid, hi)
            ELSE CubeRootSearch(n, lo, mid - 1)

(* Math.pow(t, 1/3) for 0 <= t <= 2 *)
Cbrt(t) == CubeRootSearch(t * ONE * ONE, 0, 1290)

RECURSIVE FifthRootSearch(_, _, _)
(* the largest y in lo..hi with y^5 <= u *)
FifthRootSearch(u, lo, hi) ==
    IF lo >= hi THEN lo
    ELSE LET mid == (lo + hi + 1) \div 2
             square == (mid * mid) \div ONE
             fifth == (((((square * mid) \div ONE) * mid) \div ONE) * mid) \div ONE
         IN IF fifth <= u THEN FifthRootSearch(u, mid, hi)
            ELSE FifthRootSearch(u, lo, mid - 1)

(* lutGenerator.rgbToXyz; 0.04045 lies between the integers 40 and 41, and *)
(* Math.pow(x, 2.4) = x^2 * (x^2)^(1/5) for 0 <= x <= 1                    *)
rgbToXyz(rgb) ==
    IF IsNaNColor(rgb) THEN NaNColor
    ELSE LET lin == [i \in 1..3 |->
                 LET v == Max2(0, Min2(ONE, rgb[i]))
                     x == ((v + 55) * ONE) \div 1055
                     x2 == (x * x) \div ONE
                 IN IF v <= 40 THEN (v * 100) \div 1292
                    ELSE (x2 * FifthRootSearch(x2, 0, ONE)) \div ONE]
         IN <<(lin[1] * 41246 + lin[2] * 35758 + lin[3] * 18044) \div 100000,
              (lin[1] * 21267 + lin[2] * 71515 + lin[3] * 7218) \div 100000,
              (lin[1] * 1933 + lin[2] * 11919 + lin[3] * 95030) \div 100000>>

(* lutGenerator.xyzToRgb; 0.0031308 lies between the integers 3 and 4, and *)
(* Math.pow(v, 1/2.4) = v^(1/3) * (v^(1/3))^(1/4) for 0 <= v <= 1          *)
xyzToRgb(xyz) ==
    IF IsNaNColor(xyz) THEN NaNColor
    ELSE LET lin == <<(xyz[1] * 324045 - xyz[2] * 153714 - xyz[3] * 49853) \div 100000,
                      (-xyz[1] * 96927 + xyz[2] * 187601 + xyz[3] * 4156) \div 100000,
                      (xyz[1] * 5564 - xyz[2] * 20403 + xyz[3] * 105723) \div 100000>>
         IN [i \in 1..3 |->
               LET v == Max2(0, Min2(ONE, lin[i]))
                   c == Cbrt(v)
                   root == (c * Sqrt(Sqrt(c * ONE) * ONE)) \div ONE
               IN IF v <= 3 THEN (v * 1292) \div 100
                  ELSE (1055 * root) \div ONE - 55]

(* lutGenerator.labF; delta^3 = 0.008856 lies between the integers 8 and 9 *)
labF(t) ==
    IF t > 8 THEN Cbrt(t) ELSE (t * 841) \div 108 + (4 * ONE) \div 29

(* lutGenerator.labFinv; delta = 0.2069 lies between 206 and 207 *)
labFinv(t) ==
    IF t > 206 THEN (((t * t) \div ONE) * t) \div ONE
    ELSE ((t * 29 - 4 * ONE) * 108) \div (841 * 29)

(* lutGenerator.xyzToLab *)
xyzToLab(xyz) ==
    IF IsNaNColor(xyz) THEN NaNColor
    ELSE LET fx == labF((xyz[1] * 100000) \div 95047)
             fy == labF(xyz[2])
             fz == labF((xyz[3] * 100000) \div 108883)
         IN <<((116 * fy - 16 * ONE) * LabOne) \div ONE,
              (500 * (fx - fy) * LabOne) \div ONE,
              (200 * (fy - fz) * LabOne) \div ONE>>

(* lutGenerator.labToXyz *)
labToXyz(lab) ==
    IF IsNaNColor(lab) THEN NaNColor
    ELSE LET fy == ((lab[1] + 16 * LabOne) * ONE) \div (116 * LabOne)
             fx == fy + (lab[2] * ONE) \div (500 * LabOne)
             fz == fy - (lab[3] * ONE) \div (200 * LabOne)
         IN <<(95047 * labFinv(fx)) \div 100000,
              labFinv(fy),
              (108883 * labFinv(fz)) \div 100000>>

(* lutGenerator.rgbToLab *)
rgbToLab(rgb) == xyzToLab(rgbToXyz(rgb))

(* lutGenerator.labToRgb *)
labToRgb(lab) == xyzToRgb(labToXyz(lab))

(* lutGenerator.labDistance *)
labDistance(lab1, lab2) ==
    IF IsNaNColor(lab1) \/ IsNaNColor(lab2) THEN NaN
    ELSE LET dL == lab1[1] - lab2[1]
             da == lab1[2] - lab2[2]
             db == lab1[3] - lab2[3]
         IN Sqrt(dL * dL + da * da + db * db)

(* lutGenerator.findNearestLabNeighbors *)
findNearestLabNeighbors(targetLab, labColors, k) ==
    LET distances == [i \in 1..Len(labColors) |->
                        [index |-> i,
                         distance |-> labDistance(targetLab, labColors[i])]]
    IN Slice(SortByDistance(distances), k)

(* lutGenerator.interpolateInLabSpace *)
interpolateInLabSpace(inputLab, refLab, camLab) ==
    LET neighbors == findNearestLabNeighbors(inputLab, refLab, NeighborCount)
    IN IF IndexBeyond(neighbors, camLab) THEN Thrown
       ELSE IF neighbors = <<>> \/ HasNaNDistance(neighbors) THEN Returned(NaNColor)
       ELSE LET weights == inverseSquareWeights(neighbors, LabOne * LabOne)
            IN Returned([i \in 1..3 |->
                 IF \E j \in 1..Len(neighbors) : camLab[neighbors[j].index][i] = NaN
                 THEN NaN
                 ELSE weightedQuotient(
                          [j \in 1..Len(neighbors) |->
                              camLab[neighbors[j].index][i] + LabShift],
                          weights, 1) - LabShift])

(* the body of the loop of lutGenerator.createPerceptualLUT: the colour of *)
(* one lattice node, a channel of labToRgb widened to steps of 1/OUT       *)
perceptualNode(inputColor, referenceColors, cameraColors) ==
    LET refLab == [i \in 1..Len(referenceColors) |-> rgbToLab(referenceColors[i])]
        camLab == [i \in 1..Len(cameraColors) |-> rgbToLab(cameraColors[i])]
        outputLab == interpolateInLabSpace(rgbToLab(inputColor), refLab, camLab)
        outputColor == labToRgb(outputLab.color)
    IN IF outputLab.threw THEN Thrown
       ELSE Returned([i \in 1..3 |->
               IF outputColor[i] = NaN THEN NaN ELSE outputColor[i] * FINE])

----------------------------------------------------------------------------
(* rgbToXyz and xyzToRgb at the corners of the colour cube, in decimals.   *)
(* A channel 0 or 1 decodes to the linear value 0 or 1 exactly, the matrix *)
(* entries have seven decimals, and so XYZ is a number of seven decimals   *)
(* and the linear RGB that xyzToRgb computes one of fourteen.  A number of *)
(* fourteen decimals is [hi, lo], the integer hi * Wide + lo with          *)
(* 0 <= lo < Wide, in steps of 1e-14.  The doubles of the code differ from *)
(* these decimals by less than 1e-13.                                      *)

Wide == 10000000

WideOne == [hi |-> Wide, lo |-> 0]

WideZero == [hi |-> 0, lo |-> 0]

WideNorm(hi, lo) == [hi |-> hi + lo \div Wide, lo |-> lo % Wide]

WideAdd(x, y) == WideNorm(x.hi + y.hi, x.lo + y.lo)

WideSub(x, y) == WideNorm(x.hi - y.hi, x.lo - y.lo)

(* x <= y *)
WideLeq(x, y) == x.hi < y.hi \/ (x.hi = y.hi /\ x.lo <= y.lo)

(* a * b for a number a >= 0 and a number b of seven decimals each *)
WideProduct(a, b) ==
    LET m == MulDiv(a, Abs(b), Wide)
    IN IF b >= 0 THEN [hi |-> m[1], lo |-> m[2]]
       ELSE WideNorm(-m[1], -m[2])

(* x * k for x >= 0 and an integer k >= 0 *)
WideScale(x, k) ==
    LET m == MulDiv(x.lo, k, Wide)
    IN [hi |-> x.hi * k + m[1], lo |-> m[2]]

(* floor(x / b) for x >= 0 and an integer b in 1..200 *)
WideDiv(x, b) ==
    [hi |-> x.hi \div b, lo |-> ((x.hi % b) * Wide + x.lo) \div b]

(* rgbToXyz of a colour with channels 0 or 1 (0 or ONE), in steps of 1e-7 *)
rgbToXyzCorner(rgb) ==
    LET r == rgb[1] \div ONE
        g == rgb[2] \div ONE
        b == rgb[3] \div ONE
    IN <<r * 4124564 + g * 3575761 + b * 1804375,
         r * 2126729 + g * 7151522 + b * 721750,
         r * 193339 + g * 1191920 + b * 9503041>>

(* the gamma step of xyzToRgb on a linear value of fourteen decimals:      *)
(* [low, high], bounds of the result.  Below 0.0031308 the result is       *)
(* v * 12.92.  Above, it is 1.055 * v^(1/2.4) - 0.055 with                 *)
(* v <= v^(1/2.4) <= 1, which lies between 1 - 1.055 * (1 - v) and 1.      *)
gammaEncodeBounds(linear) ==
    LET v == IF WideLeq(linear, WideZero) THEN WideZero
             ELSE IF WideLeq(WideOne, linear) THEN WideOne
             ELSE linear
        scaled == WideDiv(WideScale(v, 1292), 100)
        below == WideSub(WideOne, v)
        loss == WideAdd(WideDiv(WideScale(below, 211), 200), [hi |-> 0, lo |-> 1])
    IN IF WideLeq(v, [hi |-> 31308, lo |-> 0])
       THEN [low |-> scaled, high |-> WideAdd(scaled, [hi |-> 0, lo |-> 1])]
       ELSE [low |-> WideSub(WideOne, loss), high |-> WideOne]

(* xyzToRgb of an XYZ colour in steps of 1e-7: bounds of each channel *)
xyzToRgbBounds(xyz) ==
    LET r == WideAdd(WideAdd(WideProduct(xyz[1], 32404542),
                             WideProduct(xyz[2], -15371385)),
                     WideProduct(xyz[3], -4985314))
        g == WideAdd(WideAdd(WideProduct(xyz[1], -9692660),
                             WideProduct(xyz[2], 18760108)),
                     WideProduct(xyz[3], 415560))
        b == WideAdd(WideAdd(WideProduct(xyz[1], 556434),
                             WideProduct(xyz[2], -2040259)),
                     WideProduct(xyz[3], 10572252))
    IN <<gammaEncodeBounds(r), gammaEncodeBounds(g), gammaEncodeBounds(b)>>

----------------------------------------------------------------------------
(* imageProcessor.extractColorPatches and what it calls.  An image is      *)
(* [width, height, kind]; a pixel position is a pair of integers.          *)

(* CONFIG.GRID and CONFIG.QUALITY *)
GridRows == 7
GridCols == 15
SampleSize == 50
SubSampleGrid == 3
OutlierThreshold == 2
MinSamples == 3

(* the four grid cells that are markers for a chart with corner markers    *)
(* only                                                                    *)
isMarkerPositionCorners(row, col) ==
    <<row, col>> \in {<<0, 0>>, <<0, 14>>, <<6, 0>>, <<6, 14>>}

(* utils.isMarkerPosition *)
isMarkerPosition(row, col) ==
    <<row, col>> \in {<<0, 0>>, <<0, 7>>, <<0, 14>>,
                      <<3, 0>>, <<3, 7>>, <<3, 14>>,
                      <<6, 0>>, <<6, 7>>, <<6, 14>>}

(* utils.validateAlignment(alignment).isValid for an alignment object with *)
(* a markers array: nine markers, no coordinate 0 or NaN (!marker.imageX), *)
(* and a boolean isComplete ("true" or "false"; "undefined" if it is not   *)
(* set)                                                                    *)
validateAlignment(alignment) ==
    /\ Len(alignment.markers) = 9
    /\ \A i \in 1..Len(alignment.markers) :
          /\ alignment.markers[i][1] # 0 /\ alignment.markers[i][1] # NaN
          /\ alignment.markers[i][2] # 0 /\ alignment.markers[i][2] # NaN
    /\ alignment.isComplete \in {"true", "false"}

(* imageProcessor.interpolateGridPosition(col / (cols - 1),                *)
(* row / (rows - 1), controlPoints): u <= 0.5 is col <= 7 and localU is    *)
(* col / 7 or (col - 7) / 7; v <= 0.5 is row <= 3 and localV is row / 3 or *)
(* (row - 3) / 3.  The position is rounded down to a pixel.                *)
interpolateGridPosition(col, row, controlPoints) ==
    LET halfCols == (GridCols - 1) \div 2
        halfRows == (GridRows - 1) \div 2
        left == col <= halfCols
        top == row <= halfRows
        localU == IF left THEN col ELSE col - halfCols
        localV == IF top THEN row ELSE row - halfRows
        first == (IF top THEN 1 ELSE 4) + (IF left THEN 0 ELSE 1)
        p0 == controlPoints[first]
        p1 == controlPoints[first + 1]
        p2 == controlPoints[first + 3]
        p3 == controlPoints[first + 4]
    IN [i \in 1..2 |->
          ((p0[i] * (halfCols - localU) + p1[i] * localU) * (halfRows - localV)
           + (p2[i] * (halfCols - localU) + p3[i] * localU) * localV)
          \div (halfCols * halfRows)]

(* the neutral gray of the fallbacks *)
Gray == <<ONE \div 2, ONE \div 2, ONE \div 2>>

(* imageProcessor.samplePatch: gridSize * gridSize samples, each           *)
(* imageProcessor.averagePixels(ctx.getImageData(x, y, subSize,            *)
(* subSize).data) inside the try statement: a tainted canvas makes         *)
(* getImageData throw, which is caught, and a transparent image has no     *)
(* pixel to count; both give gray.  The chart image has a colour that      *)
(* varies with the position.                                               *)
samplePatch(image, centerX, centerY) ==
    LET subSize == SampleSize \div SubSampleGrid
        startOffset == SampleSize \div 2
    IN [k \in 1..(SubSampleGrid * SubSampleGrid) |->
          LET sx == (k - 1) % SubSampleGrid
              sy == (k - 1) \div SubSampleGrid
              x == Max2(0, Min2(centerX - startOffset + sx * subSize,
                                image.width - subSize))
              y == Max2(0, Min2(centerY - startOffset + sy * subSize,
                                image.height - subSize))
          IN IF image.kind \in {"tainted", "transparent"} THEN Gray
             ELSE <<(x * ONE) \div image.width, (y * ONE) \div image.height,
                    ONE \div 2>>]

(* imageProcessor.calculatePatchCV, in steps of 1/OUT *)
calculatePatchCV(samples) ==
    IF Len(samples) = 0 THEN OUT
    ELSE IF Len(samples) = 1 THEN 0
    ELSE LET channelCVs == [c \in 1..3 |->
                 calculateCV([k \in 1..Len(samples) |-> samples[k][c]])]
         IN Max2(0, SumSeq(channelCVs) \div 3)

(* the elements of values that keep(_) holds of, in their order *)
RECURSIVE Filter(_, _, _)
Filter(values, median, bound) ==
    IF values = <<>> THEN <<>>
    ELSE LET rest == Filter(Tail(values), median, bound)
         IN IF Abs(Head(values) * FINE - median) < bound
            THEN <<Head(values)>> \o rest ELSE rest

(* imageProcessor.robustColorAverage: per channel the mean of the values   *)
(* with |v - median| / (mad + 0.001) below the threshold, of all values if *)
(* fewer than minSamples are left or mad is 0; in steps of 1/ONE           *)
robustColorAverage(samples) ==
    IF Len(samples) = 0 THEN Gray
    ELSE IF Len(samples) = 1 THEN samples[1]
    ELSE [c \in 1..3 |->
            LET channelValues == [k \in 1..Len(samples) |-> samples[k][c]]
                median == calculateMedian(channelValues)
                mad == calculateMAD(channelValues)
                filtered == IF mad = 0 THEN channelValues
                            ELSE Filter(channelValues, median,
                                        OutlierThreshold * (mad + FINE))
                valuesToAvg == IF Len(filtered) >= MinSamples THEN filtered
                               ELSE channelValues
            IN Max2(0, Min2(ONE, SumSeq(valuesToAvg) \div Len(valuesToAvg)))]

----------------------------------------------------------------------------
(* The inputs tried *)

(* a chart of five patches as the reference shows it and as a camera       *)
(* recorded it                                                             *)
ChartRef == <<(<<0, 0, 0>>), <<1000, 1000, 1000>>, <<1000, 400, 0>>,
              <<0, 500, 1000>>, <<900, 900, 100>>>>

ChartCam == <<(<<50, 50, 50>>), <<900, 950, 1000>>, <<800, 300, 100>>,
              <<100, 400, 900>>, <<850, 800, 200>>>>

(* the first n patches of a chart *)
FirstPatches(chart, n) == SubSeq(chart, 1, Min2(n, Len(chart)))

PatchLists == {FirstPatches(ChartRef, n) : n \in 0..MaxPatches}
              \cup {FirstPatches(ChartCam, n) : n \in 1..MaxPatches}

(* the pairs <<refColors, camColors>> tried: lists of any two lengths up   *)
(* to MaxPatches, the whole chart, and pairs of two patches with one       *)
(* malformed colour: a NaN channel in the camera list, a NaN channel in    *)
(* the reference list, a channel of 1.5 in the camera list                 *)
PatchPairs ==
    (PatchLists \X PatchLists)
    \cup {<<ChartRef, ChartRef>>, <<ChartRef, ChartCam>>}
    \cup {<<FirstPatches(ChartRef, 2), <<ChartCam[1], <<NaN, 950, 1000>>>>>>,
          <<(<<ChartRef[1], <<NaN, 1000, 1000>>>>), FirstPatches(ChartCam, 2)>>,
          <<FirstPatches(ChartRef, 2), <<ChartCam[1], <<1500, 950, 1000>>>>>>}

(* the own properties of lutGenerator.algorithms *)
RegisteredNames == {"standard", "rangeAware", "tetrahedral", "perceptual"}

(* names lutGenerator.algorithms inherits from Object.prototype *)
InheritedNames == {"toString"}

(* the rangeData a caller passes: the mapping App.generateLUT computes     *)
(* from the two lists; for an empty list, for which analyzeLuminanceRange  *)
(* throws, a mapping the caller wrote (scale 1, offset 0)                  *)
RangeDataFor(ref, cam) ==
    IF ref # <<>> /\ cam # <<>>
    THEN calculateRangeMapping(analyzeLuminanceRange(ref), analyzeLuminanceRange(cam))
    ELSE [present |-> TRUE, rangeRatio |-> ONE, luminanceOffset |-> 0,
          refLuminances |-> [i \in 1..Len(ref) |-> getLuminance(ref[i])],
          camLuminances |-> [i \in 1..Len(cam) |-> getLuminance(cam[i])]]

----------------------------------------------------------------------------
(* lutGenerator.generateWithAlgorithm and what it calls *)

NoLUT == [returned |-> FALSE, value |-> <<>>]

NoProbe == [kind |-> "none", done |-> FALSE, target |-> <<0, 0, 0>>,
            colors |-> <<>>, cams |-> <<>>, result |-> <<>>]

(* lutGenerator.algorithms[algorithm]: "entry" for a registry entry,       *)
(* "inherited" for a member of Object.prototype (truthy, without a         *)
(* generate method), "undefined" otherwise                                 *)
algorithms(name) ==
    IF name \in RegisteredNames THEN "entry"
    ELSE IF name \in InheritedNames THEN "inherited"
    ELSE "undefined"

(* the node colour with the loop counters of red and blue exchanged *)
inputColorSwapped(rr, gg, bb, size) ==
    IF size = 1 THEN NaNColor
    ELSE <<(bb * ONE) \div (size - 1), (gg * ONE) \div (size - 1),
           (rr * ONE) \div (size - 1)>>

(* const inputColor = [r * step, g * step, b * step] with                  *)
(* step = 1 / (lutSize - 1); for lutSize = 1 step is Infinity and          *)
(* 0 * Infinity is NaN                                                     *)
inputColorAt(rr, gg, bb, size) ==
    IF size = 1 THEN NaNColor
    ELSE <<(rr * ONE) \div (size - 1), (gg * ONE) \div (size - 1),
           (bb * ONE) \div (size - 1)>>

(* an interpolator that keeps the result of its last call and gives half   *)
(* of it to the next                                                       *)
interpolateNodeWithMemory(name, inputColor, ref, cam, rangeData) ==
    LET fresh == CASE name = "standard" -> interpolateColor(inputColor, ref, cam)
                   [] name = "rangeAware" ->
                          interpolateWithRangeMapping(inputColor, ref, cam, rangeData)
                   [] name = "tetrahedral" ->
                          tetrahedralInterpolation(inputColor, ref, cam)
                   [] name = "perceptual" -> perceptualNode(inputColor, ref, cam)
    IN IF fresh.threw \/ lut = <<>> THEN fresh
       ELSE Returned([i \in 1..3 |-> (fresh.color[i] + lut[Len(lut)][i]) \div 2])

(* the interpolator the loop of create3DLUT, createRangeAwareLUT,          *)
(* createTetrahedralLUT or createPerceptualLUT calls for one node          *)
interpolateNode(name, inputColor, ref, cam, rangeData) ==
    CASE name = "standard" -> interpolateColor(inputColor, ref, cam)
      [] name = "rangeAware" -> interpolateWithRangeMapping(inputColor, ref, cam, rangeData)
      [] name = "tetrahedral" -> tetrahedralInterpolation(inputColor, ref, cam)
      [] name = "perceptual" -> perceptualNode(inputColor, ref, cam)

Init ==
    /\ pc = "idle"
    /\ algorithm = "standard"
    /\ refColors = <<>>
    /\ camColors = <<>>
    /\ lutSize = 0
    /\ options = NoRangeData
    /\ lut = <<>>
    /\ loopB = 0 /\ loopG = 0 /\ loopR = 0
    /\ touched = FALSE
    /\ error = "none"
    /\ lutData = NoLUT
    /\ probe = NoProbe

(* a caller calls lutGenerator.generateWithAlgorithm(algorithm, refColors, *)
(* camColors, lutSize, options); options holds rangeData only for          *)
(* rangeAware, as in App.generateLUT, and no other strategy reads options  *)
Call(name, ref, cam, size, withRange) ==
    /\ pc = "idle"
    /\ withRange => name = "rangeAware"
    /\ pc' = "lookup"
    /\ algorithm' = name
    /\ refColors' = ref
    /\ camColors' = cam
    /\ lutSize' = size
    /\ options' = IF withRange THEN RangeDataFor(ref, cam) ELSE NoRangeData
    /\ lut' = <<>>
    /\ loopB' = 0 /\ loopG' = 0 /\ loopR' = 0
    /\ touched' = FALSE
    /\ error' = "none"
    /\ lutData' = NoLUT
    /\ UNCHANGED probe

(* generateWithAlgorithm: the registry lookup and the call of alg.generate *)
Lookup ==
    /\ pc = "lookup"
    /\ IF algorithms(algorithm) = "undefined"
       THEN pc' = "thrown" /\ error' = "Unknown LUT algorithm"
       ELSE IF algorithms(algorithm) = "inherited"
       THEN pc' = "thrown" /\ error' = "TypeError"
       ELSE pc' = "generate" /\ error' = error
    /\ UNCHANGED <<algorithm, refColors, camColors, lutSize, options, lut,
                   loopB, loopG, loopR, touched, lutData, probe>>

(* generate of rangeAware without its check of options.rangeData *)
GenerateUnchecked ==
    /\ pc = "generate"
    /\ pc' = "loop"
    /\ lut' = <<>>
    /\ loopB' = 0 /\ loopG' = 0 /\ loopR' = 0
    /\ touched' = TRUE
    /\ UNCHANGED <<algorithm, refColors, camColors, lutSize, options, error,
                   lutData, probe>>

(* algorithms[algorithm].generate up to the loop of create...LUT: the      *)
(* rangeData check, const lut = [], the spatial index over the colours     *)
Generate ==
    /\ pc = "generate"
    /\ IF algorithm = "rangeAware" /\ ~options.present
       THEN /\ pc' = "thrown"
            /\ error' = "Range data required"
            /\ UNCHANGED <<lut, loopB, loopG, loopR, touched>>
       ELSE /\ pc' = "loop"
            /\ lut' = <<>>
            /\ loopB' = 0 /\ loopG' = 0 /\ loopR' = 0
            /\ touched' = TRUE
            /\ error' = error
    /\ UNCHANGED <<algorithm, refColors, camColors, lutSize, options, lutData,
                   probe>>

(* a loop body that sorts referenceColors itself by the distance to the    *)
(* input colour, where the code sorts a list of distances it has made      *)
NodeSortingInPlace ==
    /\ pc = "loop"
    /\ loopB < lutSize
    /\ LET inputColor == inputColorAt(loopR, loopG, loopB, lutSize)
           outputColor == interpolateNode(algorithm, inputColor,
                              refColors, camColors, options)
           sorted == SortByDistance([i \in 1..Len(refColors) |->
                         [index |-> i,
                          distance |-> colorDistance(inputColor, refColors[i])]])
       IN IF outputColor.threw
          THEN /\ pc' = "thrown"
               /\ error' = "TypeError"
               /\ UNCHANGED <<lut, loopB, loopG, loopR, refColors>>
          ELSE /\ lut' = Append(lut, outputColor.color)
               /\ refColors' = [i \in 1..Len(refColors) |-> refColors[sorted[i].index]]
               /\ loopR' = IF loopR + 1 < lutSize THEN loopR + 1 ELSE 0
               /\ loopG' = IF loopR + 1 < lutSize THEN loopG
                           ELSE IF loopG + 1 < lutSize THEN loopG + 1 ELSE 0
               /\ loopB' = IF loopR + 1 < lutSize \/ loopG + 1 < lutSize
                           THEN loopB ELSE loopB + 1
               /\ UNCHANGED <<pc, error>>
    /\ UNCHANGED <<algorithm, camColors, lutSize, options,
                   touched, lutData, probe>>

(* one pass of the innermost loop body, and the loop increments after it *)
Node ==
    /\ pc = "loop"
    /\ loopB < lutSize
    /\ LET outputColor == interpolateNode(algorithm,
                              inputColorAt(loopR, loopG, loopB, lutSize),
                              refColors, camColors, options)
       IN IF outputColor.threw
          THEN /\ pc' = "thrown"
               /\ error' = "TypeError"
               /\ UNCHANGED <<lut, loopB, loopG, loopR>>
          ELSE /\ lut' = Append(lut, outputColor.color)
               /\ loopR' = IF loopR + 1 < lutSize THEN loopR + 1 ELSE 0
               /\ loopG' = IF loopR + 1 < lutSize THEN loopG
                           ELSE IF loopG + 1 < lutSize THEN loopG + 1 ELSE 0
               /\ loopB' = IF loopR + 1 < lutSize \/ loopG + 1 < lutSize
                           THEN loopB ELSE loopB + 1
               /\ UNCHANGED <<pc, error>>
    /\ UNCHANGED <<algorithm, refColors, camColors, lutSize, options,
                   touched, lutData, probe>>

(* a return with the outer loop bounded by lutSize - 1 *)
ReturnEarly ==
    /\ pc = "loop"
    /\ ~(loopB < lutSize - 1)
    /\ pc' = "returned"
    /\ lutData' = [returned |-> TRUE, value |-> lut]
    /\ UNCHANGED <<algorithm, refColors, camColors, lutSize, options, lut,
                   loopB, loopG, loopR, touched, error, probe>>

(* the loops are over: return lut, which the caller keeps in lutData *)
Return ==
    /\ pc = "loop"
    /\ ~(loopB < lutSize)
    /\ pc' = "returned"
    /\ lutData' = [returned |-> TRUE, value |-> lut]
    /\ UNCHANGED <<algorithm, refColors, camColors, lutSize, options, lut,
                   loopB, loopG, loopR, touched, error, probe>>

(* the try statement of the caller is over (App.generateLUT reaches the   *)
(* end of its try or catch block); its locals are dropped                  *)
Finish ==
    /\ pc \in {"returned", "thrown"}
    /\ pc' = "idle"
    /\ algorithm' = "standard"
    /\ refColors' = <<>>
    /\ camColors' = <<>>
    /\ lutSize' = 0
    /\ options' = NoRangeData
    /\ lut' = <<>>
    /\ loopB' = 0 /\ loopG' = 0 /\ loopR' = 0
    /\ touched' = FALSE
    /\ error' = "none"
    /\ lutData' = NoLUT
    /\ UNCHANGED probe

Next ==
    \/ \E name \in RegisteredNames \cup InheritedNames \cup {"bicubic"},
          pair \in PatchPairs, size \in 0..MaxSize, withRange \in BOOLEAN :
          Call(name, pair[1], pair[2], size, withRange)
    \/ Lookup
    \/ Generate
    \/ Node
    \/ Return
    \/ Finish

Spec == Init /\ [][Next]_vars

----------------------------------------------------------------------------
(* The nodes of a lattice computed once more by two workers: after the     *)
(* loops of a build have returned, one worker computes the nodes 1, 3, 5,  *)
(* ... and the other the nodes 2, 4, 6, ... from the inputs of the build,  *)
(* one node a step, and each writes its node to the index of the node; the *)
(* steps of the two interleave in every way.                               *)

Workers == {"odd", "even"}

(* the loop variables <<r, g, b>> at which the loops push the entry n *)
NodeCoordinates(n, size) ==
    <<(n - 1) % size, ((n - 1) \div size) % size, (n - 1) \div (size * size)>>

(* the builds the workers repeat: every strategy on the chart *)
CallForWorkers ==
    /\ probe = NoProbe
    /\ \E name \in RegisteredNames, size \in 2..MaxSize :
          Call(name, ChartRef, ChartCam, size, name = "rangeAware")

WorkersStart ==
    /\ pc = "returned"
    /\ probe = NoProbe
    /\ probe' = [kind |-> "workers", done |-> FALSE,
                 next |-> [w \in Workers |-> IF w = "odd" THEN 1 ELSE 2],
                 slots |-> [n \in 1..(lutSize * lutSize * lutSize) |-> <<>>]]
    /\ UNCHANGED buildVars

(* worker w computes its next node and writes it to the index of the node *)
WorkerNode(w) ==
    /\ pc = "returned"
    /\ probe.kind = "workers"
    /\ probe.next[w] <= lutSize * lutSize * lutSize
    /\ LET n == probe.next[w]
           at == NodeCoordinates(n, lutSize)
           outputColor == interpolateNode(algorithm,
                              inputColorAt(at[1], at[2], at[3], lutSize),
                              refColors, camColors, options)
       IN /\ ~outputColor.threw
          /\ probe' = [probe EXCEPT
                          !.slots[n] = outputColor.color,
                          !.next[w] = n + 2,
                          !.done = \A v \in Workers \ {w} :
                                      probe.next[v] > lutSize * lutSize * lutSize]
    /\ UNCHANGED buildVars

FinishAfterWorkers ==
    /\ probe.kind = "workers"
    /\ \A w \in Workers : probe.next[w] > lutSize * lutSize * lutSize
    /\ Finish

WorkersReset ==
    /\ pc = "idle"
    /\ probe.kind = "workers"
    /\ probe' = NoProbe
    /\ UNCHANGED buildVars

NextWorkers ==
    \/ CallForWorkers
    \/ Lookup
    \/ Generate
    \/ Node
    \/ Return
    \/ WorkersStart
    \/ \E w \in Workers : WorkerNode(w)
    \/ FinishAfterWorkers
    \/ WorkersReset

SpecWorkers == Init /\ [][NextWorkers]_vars

----------------------------------------------------------------------------
(* Single calls of the functions of lutGenerator *)

Reverse(s) == [i \in 1..Len(s) |-> s[Len(s) + 1 - i]]

(* the reference lists of the calls: lists over three colours, two of them *)
(* close to each other, and the chart in both orders                       *)
ProbeLists ==
    UNION {[1..n -> {<<500, 500, 500>>, <<510, 500, 500>>, <<1000, 400, 0>>}] :
              n \in 1..MaxProbeLen}
    \cup {ChartRef, Reverse(ChartRef)}

NeighborKinds == {"findNearestNeighbors", "findNearestNeighborsWithLuminance",
                  "findNearestLabNeighbors"}

ProbeCall(kind, target, colors, cams) ==
    [kind |-> kind, done |-> FALSE, target |-> target, colors |-> colors,
     cams |-> cams, result |-> <<>>]

(* the calls tried: interpolateColor at a colour of the reference list,    *)
(* the three neighbour searches at a target colour, the conversion to XYZ  *)
(* and back of a corner of the colour cube, and the neighbour search of    *)
(* interpolateWithRangeMapping at a node of the lattice of size 3          *)
ProbeInputs ==
    UNION {{ProbeCall("interpolateColor", cs[i], cs, cams) :
               i \in 1..Len(cs), cams \in {cs, Reverse(cs)}} : cs \in ProbeLists}
    \cup {ProbeCall(kind, target, cs, <<>>) :
            kind \in NeighborKinds, cs \in ProbeLists,
            target \in {<<500, 500, 500>>, <<0, 500, 1000>>, <<1000, 400, 0>>}}
    \cup {ProbeCall("xyzRoundTrip", <<r, g, b>>, <<>>, <<>>) :
            r \in {0, ONE}, g \in {0, ONE}, b \in {0, ONE}}
    \cup {ProbeCall("rangeMappingNeighbors", inputColorAt(r, g, b, 3), ChartRef, cams) :
            r \in 0..2, g \in 0..2, b \in 0..2,
            cams \in {ChartRef, ChartCam,
                      \* the camera colours of an underexposed capture
                      <<(<<20, 20, 20>>), <<250, 250, 250>>, <<250, 100, 10>>,
                        <<10, 120, 250>>, <<220, 220, 30>>>>}}

InitProbe ==
    /\ pc = "idle"
    /\ algorithm = "standard"
    /\ refColors = <<>>
    /\ camColors = <<>>
    /\ lutSize = 0
    /\ options = NoRangeData
    /\ lut = <<>>
    /\ loopB = 0 /\ loopG = 0 /\ loopR = 0
    /\ touched = FALSE
    /\ error = "none"
    /\ lutData = NoLUT
    /\ probe \in ProbeInputs

(* lutGenerator.interpolateColor(inputColor, referenceColors, cameraColors) *)
ApplyInterpolateColor ==
    /\ probe.kind = "interpolateColor"
    /\ ~probe.done
    /\ probe' = [probe EXCEPT !.done = TRUE,
                    !.result = interpolateColor(probe.target, probe.colors, probe.cams)]
    /\ UNCHANGED buildVars

(* lutGenerator.findNearestNeighbors(inputColor, referenceColors, 4), the  *)
(* call of interpolateColor and of tetrahedralInterpolation                *)
ApplyFindNearestNeighbors ==
    /\ probe.kind = "findNearestNeighbors"
    /\ ~probe.done
    /\ probe' = [probe EXCEPT !.done = TRUE,
                    !.result = findNearestNeighbors(probe.target, probe.colors,
                                                    NeighborCount)]
    /\ UNCHANGED buildVars

(* the call of interpolateWithRangeMapping: the luminances of the          *)
(* reference patches are rangeData.refLuminances                           *)
ApplyFindNearestNeighborsWithLuminance ==
    /\ probe.kind = "findNearestNeighborsWithLuminance"
    /\ ~probe.done
    /\ probe' = [probe EXCEPT !.done = TRUE,
                    !.result = findNearestNeighborsWithLuminance(
                        probe.target, getLuminance(probe.target), probe.colors,
                        [i \in 1..Len(probe.colors) |-> getLuminance(probe.colors[i])],
                        NeighborCount)]
    /\ UNCHANGED buildVars

(* the call of interpolateInLabSpace on the colours createPerceptualLUT    *)
(* converted to Lab                                                        *)
ApplyFindNearestLabNeighbors ==
    /\ probe.kind = "findNearestLabNeighbors"
    /\ ~probe.done
    /\ probe' = [probe EXCEPT !.done = TRUE,
                    !.result = findNearestLabNeighbors(
                        rgbToLab(probe.target),
                        [i \in 1..Len(probe.colors) |-> rgbToLab(probe.colors[i])],
                        NeighborCount)]
    /\ UNCHANGED buildVars

(* lutGenerator.xyzToRgb(lutGenerator.rgbToXyz(rgb)) *)
ApplyXyzRoundTrip ==
    /\ probe.kind = "xyzRoundTrip"
    /\ ~probe.done
    /\ probe' = [probe EXCEPT !.done = TRUE,
                    !.result = xyzToRgbBounds(rgbToXyzCorner(probe.target))]
    /\ UNCHANGED buildVars

(* the neighbour search of interpolateWithRangeMapping, with the range     *)
(* data App.generateLUT computes from the two lists                        *)
ApplyRangeMappingNeighbors ==
    /\ probe.kind = "rangeMappingNeighbors"
    /\ ~probe.done
    /\ probe' = [probe EXCEPT !.done = TRUE,
                    !.result = rangeMappingNeighbors(probe.target, probe.colors,
                                   RangeDataFor(probe.colors, probe.cams))]
    /\ UNCHANGED buildVars

NextProbe ==
    \/ ApplyInterpolateColor
    \/ ApplyFindNearestNeighbors
    \/ ApplyFindNearestNeighborsWithLuminance
    \/ ApplyFindNearestLabNeighbors
    \/ ApplyXyzRoundTrip
    \/ ApplyRangeMappingNeighbors

SpecProbe == InitProbe /\ [][NextProbe]_vars

----------------------------------------------------------------------------
(* Single calls of the statistics of utils *)

InitStats ==
    /\ pc = "idle"
    /\ algorithm = "standard"
    /\ refColors = <<>>
    /\ camColors = <<>>
    /\ lutSize = 0
    /\ options = NoRangeData
    /\ lut = <<>>
    /\ loopB = 0 /\ loopG = 0 /\ loopR = 0
    /\ touched = FALSE
    /\ error = "none"
    /\ lutData = NoLUT
    /\ probe \in {[kind |-> kind, done |-> FALSE, values |-> values,
                    result |-> [threw |-> FALSE, value |-> 0, isZero |-> TRUE]] :
                     kind \in {"calculateMedian", "calculateMAD",
                               "calculateStandardDeviation", "calculateCV"},
                     values \in UNION {[1..n -> {0, 100, 300, 500}] :
                                          n \in 0..MaxStatLen}}

(* utils.calculateMedian(values); no statement of it throws *)
ApplyCalculateMedian ==
    /\ probe.kind = "calculateMedian"
    /\ ~probe.done
    /\ probe' = [probe EXCEPT !.done = TRUE,
                    !.result = [threw |-> FALSE,
                                value |-> calculateMedian(probe.values),
                                isZero |-> calculateMedian(probe.values) = 0]]
    /\ UNCHANGED buildVars

(* utils.calculateMAD(values) *)
ApplyCalculateMAD ==
    /\ probe.kind = "calculateMAD"
    /\ ~probe.done
    /\ probe' = [probe EXCEPT !.done = TRUE,
                    !.result = [threw |-> FALSE,
                                value |-> calculateMAD(probe.values),
                                isZero |-> calculateMAD(probe.values) = 0]]
    /\ UNCHANGED buildVars

(* utils.calculateStandardDeviation(values) *)
ApplyCalculateStandardDeviation ==
    /\ probe.kind = "calculateStandardDeviation"
    /\ ~probe.done
    /\ probe' = [probe EXCEPT !.done = TRUE,
                    !.result = [threw |-> FALSE,
                                value |-> calculateStandardDeviation(probe.values),
                                isZero |-> calculateStandardDeviationIsZero(probe.values)]]
    /\ UNCHANGED buildVars

(* utils.calculateCV(values) *)
ApplyCalculateCV ==
    /\ probe.kind = "calculateCV"
    /\ ~probe.done
    /\ probe' = [probe EXCEPT !.done = TRUE,
                    !.result = [threw |-> FALSE,
                                value |-> calculateCV(probe.values),
                                isZero |-> calculateCVIsZero(probe.values)]]
    /\ UNCHANGED buildVars

NextStats ==
    \/ ApplyCalculateMedian
    \/ ApplyCalculateMAD
    \/ ApplyCalculateStandardDeviation
    \/ ApplyCalculateCV

SpecStats == InitStats /\ [][NextStats]_vars

----------------------------------------------------------------------------
(* Single calls of the functions of rangeAnalyzer on the statistics of two *)
(* patch lists                                                             *)

(* the patch lists analysed: those of the builds, and lists of one         *)
(* luminance                                                               *)
RangeLists ==
    (PatchLists \ {<<>>}) \cup {ChartRef, ChartCam}
    \cup {<<<<500, 500, 500>>>>,
          <<<<200, 200, 200>>, <<200, 200, 200>>, <<200, 200, 200>>>>,
          <<<<1000, 0, 0>>, <<1000, 0, 0>>, <<1000, 0, 0>>, <<1000, 0, 0>>>>}

InitRange ==
    /\ pc = "idle"
    /\ algorithm = "standard"
    /\ refColors = <<>>
    /\ camColors = <<>>
    /\ lutSize = 0
    /\ options = NoRangeData
    /\ lut = <<>>
    /\ loopB = 0 /\ loopG = 0 /\ loopR = 0
    /\ touched = FALSE
    /\ error = "none"
    /\ lutData = NoLUT
    /\ probe \in {[kind |-> kind, done |-> FALSE, ref |-> ref, cam |-> cam,
                    refRange |-> analyzeLuminanceRange(ref),
                    camRange |-> analyzeLuminanceRange(cam),
                    mapping |-> NoRangeData,
                    quality |-> [score |-> 0, hasGoodRange |-> FALSE,
                                 isWellCentered |-> FALSE, hasClipping |-> FALSE,
                                 poorUniformity |-> FALSE],
                    compatibility |-> [score |-> 0, spanSimilar |-> FALSE,
                                       meanSimilar |-> FALSE,
                                       distributionSimilar |-> FALSE,
                                       issues |-> <<>>]] :
                     kind \in {"calculateRangeMapping", "assessRangeCompatibility"},
                     ref \in RangeLists, cam \in RangeLists}
                \cup
                 {[kind |-> "analyzeLuminanceRange", done |-> FALSE,
                   ref |-> ref, cam |-> ref,
                   refRange |-> [min |-> 0, max |-> 0, mean |-> 0, robustMin |-> 0,
                                 robustMax |-> 0, range |-> 0, luminances |-> <<>>],
                   camRange |-> [min |-> 0, max |-> 0, mean |-> 0, robustMin |-> 0,
                                 robustMax |-> 0, range |-> 0, luminances |-> <<>>],
                   mapping |-> NoRangeData,
                   quality |-> [score |-> 0, hasGoodRange |-> FALSE,
                                isWellCentered |-> FALSE, hasClipping |-> FALSE,
                                poorUniformity |-> FALSE],
                   compatibility |-> [score |-> 0, spanSimilar |-> FALSE,
                                      meanSimilar |-> FALSE,
                                      distributionSimilar |-> FALSE,
                                      issues |-> <<>>]] :
                     ref \in RangeLists
                             \* charts of twenty patches: a gray ramp, a
                             \* chart that is mid gray but for one darker
                             \* patch, ten blacks and ten whites
                             \cup {[i \in 1..20 |->
                                     LET v == IF kind = "ramp"
                                              THEN (((i * 7) % 20) * ONE) \div 20 + 20
                                              ELSE IF kind = "outlier"
                                              THEN (IF i = 7 THEN ONE \div 10
                                                    ELSE ONE \div 2)
                                              ELSE (IF i % 2 = 0 THEN 0 ELSE ONE)
                                     IN <<v, v, v>>] :
                                      kind \in {"ramp", "outlier", "clipped"}}}

(* rangeAnalyzer.analyzeLuminanceRange(patches) with its call of           *)
(* assessRangeQuality                                                      *)
ApplyAnalyzeLuminanceRange ==
    /\ probe.kind = "analyzeLuminanceRange"
    /\ ~probe.done
    /\ \E tieIsPoor \in BOOLEAN :
          LET result == analyzeLuminanceRange(probe.ref)
          IN probe' = [probe EXCEPT !.done = TRUE,
                          !.refRange = result,
                          !.quality = assessRangeQuality(result.luminances, tieIsPoor)]
    /\ UNCHANGED buildVars

(* rangeAnalyzer.calculateRangeMapping(refRange, camRange) *)
ApplyCalculateRangeMapping ==
    /\ probe.kind = "calculateRangeMapping"
    /\ ~probe.done
    /\ probe' = [probe EXCEPT !.done = TRUE,
                    !.mapping = calculateRangeMapping(probe.refRange, probe.camRange)]
    /\ UNCHANGED buildVars

(* rangeAnalyzer.assessRangeCompatibility(refRange, camRange); the two     *)
(* calls of calculateSkewness round alike on equal lists: the mean the     *)
(* doubles give of a constant list is the value (0), or just above it (1), *)
(* or just below it (-1)                                                   *)
ApplyAssessRangeCompatibility ==
    /\ probe.kind = "assessRangeCompatibility"
    /\ ~probe.done
    /\ \E refRounding, camRounding \in {-1, 0, 1} :
          /\ probe.refRange.luminances = probe.camRange.luminances
                => refRounding = camRounding
          /\ probe' = [probe EXCEPT !.done = TRUE,
                          !.compatibility = assessRangeCompatibility(
                              probe.refRange, probe.camRange, refRounding, camRounding)]
    /\ UNCHANGED buildVars

NextRange ==
    \/ ApplyCalculateRangeMapping
    \/ ApplyAssessRangeCompatibility
    \/ ApplyAnalyzeLuminanceRange

SpecRange == InitRange /\ [][NextRange]_vars

----------------------------------------------------------------------------
(* App.generateLUT up to the range analysis: extractColorPatches of the    *)
(* reference image and then of the camera image                            *)

(* nine markers, the top row first, on an image of 1500 x 700 pixels *)
StraightMarkers == <<(<<50, 50>>), <<750, 50>>, <<1450, 50>>,
                     <<50, 350>>, <<750, 350>>, <<1450, 350>>,
                     <<50, 650>>, <<750, 650>>, <<1450, 650>>>>

(* the markers of a chart that was photographed at an angle *)
SkewedMarkers == <<(<<120, 80>>), <<700, 40>>, <<1300, 20>>,
                   <<100, 360>>, <<720, 340>>, <<1380, 330>>,
                   <<60, 690>>, <<760, 660>>, <<1490, 640>>>>

Alignments ==
    {[markers |-> StraightMarkers, isComplete |-> "true"],
     [markers |-> SkewedMarkers, isComplete |-> "true"],
     [markers |-> SkewedMarkers, isComplete |-> "false"],
     [markers |-> SubSeq(StraightMarkers, 1, 8), isComplete |-> "false"],
     [markers |-> [StraightMarkers EXCEPT ![1] = <<0, 50>>], isComplete |-> "true"],
     [markers |-> StraightMarkers, isComplete |-> "undefined"]}

Images == {[width |-> 1500, height |-> 700, kind |-> kind] :
              kind \in {"chart", "tainted", "transparent"}}

NoExtraction ==
    [patches |-> <<>>, qualityScores |-> <<>>, skippedIndices |-> <<>>,
     patchLocations |-> <<>>]

InitExtract ==
    /\ pc = "idle"
    /\ algorithm = "standard"
    /\ refColors = <<>>
    /\ camColors = <<>>
    /\ lutSize = 0
    /\ options = NoRangeData
    /\ lut = <<>>
    /\ loopB = 0 /\ loopG = 0 /\ loopR = 0
    /\ touched = FALSE
    /\ error = "none"
    /\ lutData = NoLUT
    /\ probe \in {[kind |-> "extractColorPatches", done |-> FALSE,
                    alignments |-> [reference |-> refAlignment,
                                    camera |-> camAlignment],
                    images |-> [reference |-> refImage, camera |-> camImage],
                    image |-> "reference", at |-> "validate",
                    row |-> 0, col |-> 0, totalIndex |-> 0,
                    current |-> NoExtraction,
                    refResult |-> NoExtraction, camResult |-> NoExtraction] :
                     refAlignment \in Alignments, camAlignment \in Alignments,
                     refImage \in {image \in Images : image.kind = "chart"},
                     camImage \in Images}

(* extractColorPatches up to its loops: the alignment is validated *)
ExtractValidate ==
    /\ probe.kind = "extractColorPatches"
    /\ probe.at = "validate"
    /\ IF validateAlignment(probe.alignments[probe.image])
       THEN probe' = [probe EXCEPT !.at = "loop", !.row = 0, !.col = 0,
                                   !.totalIndex = 0, !.current = NoExtraction]
       ELSE probe' = [probe EXCEPT !.at = "thrown", !.done = TRUE]
    /\ UNCHANGED buildVars

(* one pass of the inner loop body, and the loop increments after it *)
ExtractCell ==
    /\ probe.kind = "extractColorPatches"
    /\ probe.at = "loop"
    /\ probe.row < GridRows
    /\ LET row == probe.row
           col == probe.col
           center == interpolateGridPosition(col, row,
                         probe.alignments[probe.image].markers)
           samples == samplePatch(probe.images[probe.image], center[1], center[2])
           current == probe.current
           pushed ==
               IF isMarkerPosition(row, col)
               THEN [current EXCEPT
                       !.skippedIndices = Append(@, probe.totalIndex)]
               ELSE [current EXCEPT
                       !.qualityScores = Append(@, calculatePatchCV(samples)),
                       !.patches = Append(@, robustColorAverage(samples)),
                       !.patchLocations = Append(@, <<row, col>>)]
       IN probe' = [probe EXCEPT
                       !.current = pushed,
                       !.totalIndex = @ + 1,
                       !.col = IF col + 1 < GridCols THEN col + 1 ELSE 0,
                       !.row = IF col + 1 < GridCols THEN row ELSE row + 1]
    /\ UNCHANGED buildVars

(* the loops are over: the result is returned to App.generateLUT, which    *)
(* goes on with the camera image, or with the analysis data                *)
ExtractReturn ==
    /\ probe.kind = "extractColorPatches"
    /\ probe.at = "loop"
    /\ ~(probe.row < GridRows)
    /\ IF probe.image = "reference"
       THEN probe' = [probe EXCEPT !.refResult = probe.current,
                                   !.image = "camera", !.at = "validate"]
       ELSE probe' = [probe EXCEPT !.camResult = probe.current,
                                   !.at = "returned", !.done = TRUE]
    /\ UNCHANGED buildVars

NextExtract ==
    \/ ExtractValidate
    \/ ExtractCell
    \/ ExtractReturn

SpecExtract == InitExtract /\ [][NextExtract]_vars

----------------------------------------------------------------------------
(* The alignment of the two images: alignmentModule and StateManager on    *)
(* state.currentAlignment, state.alignments and                            *)
(* state.history.alignmentSteps.  A marker is its index (its coordinates   *)
(* are not read by the handlers modelled), a history item the index of the *)
(* marker it records, null is "null", and a quality is "assessed".  A      *)
(* session has at most MaxDiscards calls that discard markers placed for   *)
(* the alignment in progress (discards counts them).                       *)

MarkerCount == 9

MaxUndoHistory == 10

ImageTypes == {"reference", "camera"}

(* the value StateManager gives state.currentAlignment when no alignment   *)
(* is in progress                                                          *)
IdleAlignment ==
    [imageType |-> "null", currentMarkerIndex |-> 0, isPlacing |-> FALSE,
     markers |-> <<>>, isComplete |-> FALSE]

(* the initial value of state.alignments *)
EmptyAlignments ==
    [t \in ImageTypes |-> [markers |-> <<>>, isComplete |-> FALSE, quality |-> "null"]]

(* a history that never drops an item *)
addToHistoryUnlimited(alignmentSteps, item) == Append(alignmentSteps, item)

(* StateManager.addToHistory: alignmentSteps after the call *)
addToHistory(alignmentSteps, item) ==
    LET pushed == Append(alignmentSteps, item)
    IN IF Len(pushed) > MaxUndoHistory THEN Tail(pushed) ELSE pushed

(* the state after the images named in images were uploaded *)
InitAlign ==
    /\ pc = "idle"
    /\ algorithm = "standard"
    /\ refColors = <<>>
    /\ camColors = <<>>
    /\ lutSize = 0
    /\ options = NoRangeData
    /\ lut = <<>>
    /\ loopB = 0 /\ loopG = 0 /\ loopR = 0
    /\ touched = FALSE
    /\ error = "none"
    /\ lutData = NoLUT
    /\ probe \in {[kind |-> "alignment", images |-> images,
                    currentAlignment |-> IdleAlignment,
                    alignments |-> EmptyAlignments,
                    alignmentSteps |-> <<>>, discards |-> 0] :
                     images \in {{"reference"}, ImageTypes}}

(* alignmentModule.startAlignment(imageType) with                          *)
(* StateManager.startAlignment; without the image it only shows a status   *)
StartAlignment(imageType) ==
    /\ probe.kind = "alignment"
    /\ probe.currentAlignment.markers # <<>> => probe.discards < MaxDiscards
    /\ probe' = IF imageType \notin probe.images THEN probe
                ELSE [probe EXCEPT
                         !.discards = IF probe.currentAlignment.markers # <<>>
                                      THEN @ + 1 ELSE @,
                         !.currentAlignment =
                             [IdleAlignment EXCEPT !.imageType = imageType]]
    /\ UNCHANGED buildVars

(* alignmentModule.startPlacingMarkers *)
StartPlacingMarkers ==
    /\ probe.kind = "alignment"
    /\ probe.currentAlignment.imageType # "null"
    /\ probe.currentAlignment.markers # <<>> => probe.discards < MaxDiscards
    /\ probe' = [probe EXCEPT !.discards = IF probe.currentAlignment.markers # <<>>
                                           THEN @ + 1 ELSE @,
                              !.currentAlignment.isPlacing = TRUE,
                              !.currentAlignment.currentMarkerIndex = 0,
                              !.currentAlignment.markers = <<>>]
    /\ UNCHANGED buildVars

(* alignmentModule.handleCanvasClick with StateManager.addMarker and, at   *)
(* the last marker, alignmentModule.finishMarkerPlacement; addMarker       *)
(* throws before it changes anything if nine markers are placed            *)
CanvasClick ==
    /\ probe.kind = "alignment"
    /\ probe.currentAlignment.isPlacing
    /\ LET current == probe.currentAlignment
           marker == [index |-> current.currentMarkerIndex]
           markers == Append(current.markers, marker)
           added == [current EXCEPT
                        !.markers = markers,
                        !.currentMarkerIndex = current.currentMarkerIndex + 1,
                        !.isComplete = (current.isComplete
                                        \/ Len(markers) = MarkerCount)]
       IN probe' =
            IF Len(current.markers) >= MarkerCount THEN probe
            ELSE [probe EXCEPT
                     !.alignmentSteps =
                         addToHistory(probe.alignmentSteps,
                                      [index |-> current.currentMarkerIndex]),
                     !.currentAlignment =
                         IF added.currentMarkerIndex >= MarkerCount
                         THEN [added EXCEPT !.isPlacing = FALSE,
                                            !.isComplete = TRUE]
                         ELSE added]
    /\ UNCHANGED buildVars

(* an undo that leaves currentMarkerIndex as it is *)
UndoLastMarkerKeepIndex ==
    /\ probe.kind = "alignment"
    /\ probe.currentAlignment.isPlacing
    /\ probe.currentAlignment.markers # <<>>
    /\ probe.discards < MaxDiscards
    /\ LET markers == probe.currentAlignment.markers
       IN probe' = [probe EXCEPT
                       !.discards = @ + 1,
                       !.currentAlignment.markers =
                           SubSeq(markers, 1, Len(markers) - 1),
                       !.currentAlignment.isComplete = FALSE]
    /\ UNCHANGED buildVars

(* alignmentModule.undoLastMarker with StateManager.removeLastMarker *)
UndoLastMarker ==
    /\ probe.kind = "alignment"
    /\ probe.currentAlignment.isPlacing
    /\ probe.currentAlignment.markers # <<>>
    /\ probe.discards < MaxDiscards
    /\ LET markers == probe.currentAlignment.markers
       IN probe' = [probe EXCEPT
                       !.discards = @ + 1,
                       !.currentAlignment.markers =
                           SubSeq(markers, 1, Len(markers) - 1),
                       !.currentAlignment.currentMarkerIndex = Len(markers) - 1,
                       !.currentAlignment.isComplete = FALSE]
    /\ UNCHANGED buildVars

(* alignmentModule.resetAlignment with StateManager.resetAlignment and     *)
(* StateManager.startAlignment, called by the Reset button and Ctrl+R, and *)
(* by App.cancelCurrentOperation (Escape) while markers are placed         *)
ResetAlignment(key) ==
    /\ probe.kind = "alignment"
    /\ key = "Escape" => probe.currentAlignment.isPlacing
    /\ probe.currentAlignment.imageType # "null"
    /\ probe.currentAlignment.markers # <<>> => probe.discards < MaxDiscards
    /\ probe' = [probe EXCEPT
                    !.discards = IF probe.currentAlignment.markers # <<>>
                                 THEN @ + 1 ELSE @,
                    !.alignments = EmptyAlignments,
                    !.currentAlignment =
                        [IdleAlignment EXCEPT
                            !.imageType = probe.currentAlignment.imageType]]
    /\ UNCHANGED buildVars

(* alignmentModule.acceptAlignment: the alignment with its quality is      *)
(* stored, and then StateManager.completeAlignment stores its own          *)
AcceptAlignment ==
    /\ probe.kind = "alignment"
    /\ probe.currentAlignment.isComplete
    /\ LET imageType == probe.currentAlignment.imageType
           accepted == [markers |-> probe.currentAlignment.markers,
                        isComplete |-> TRUE, quality |-> "assessed"]
           stored == [probe.alignments EXCEPT ![imageType] = accepted]
           completed == [stored EXCEPT ![imageType] =
                            [markers |-> probe.currentAlignment.markers,
                             isComplete |-> TRUE, quality |-> "null"]]
       IN probe' = [probe EXCEPT !.alignments = completed,
                                 !.currentAlignment = IdleAlignment]
    /\ UNCHANGED buildVars

NextAlign ==
    \/ \E imageType \in ImageTypes : StartAlignment(imageType)
    \/ StartPlacingMarkers
    \/ CanvasClick
    \/ UndoLastMarker
    \/ \E key \in {"Ctrl+R", "Escape"} : ResetAlignment(key)
    \/ AcceptAlignment

SpecAlign == InitAlign /\ [][NextAlign]_vars

----------------------------------------------------------------------------
(* App.generateLUT and App.setLUTMode on state.lutMode,                    *)
(* state.analysisData and state.rangeData.  The objects a run stores in    *)
(* analysisData and rangeData are tagged with the number of the run; run   *)
(* keeps the number and the mode of the run in progress, built the call of *)
(* generateWithAlgorithm the run made; null and the rangeData of the       *)
(* options {}, undefined, are tagged with the run 0.  The Generate button  *)
(* is disabled while a run is in progress.                                 *)

InitGenerate ==
    /\ pc = "idle"
    /\ algorithm = "standard"
    /\ refColors = <<>>
    /\ camColors = <<>>
    /\ lutSize = 0
    /\ options = NoRangeData
    /\ lut = <<>>
    /\ loopB = 0 /\ loopG = 0 /\ loopR = 0
    /\ touched = FALSE
    /\ error = "none"
    /\ lutData = NoLUT
    /\ probe \in {[kind |-> "generateLUT", at |-> "idle",
                    alignments |-> [reference |-> refAlignment,
                                    camera |-> camAlignment],
                    lutMode |-> "standard",
                    analysisData |-> [is |-> "null", run |-> 0], rangeData |-> [is |-> "null", run |-> 0],
                    status |-> "none", runs |-> 0,
                    run |-> [number |-> 0, mode |-> "standard"],
                    built |-> [run |-> 0, algorithm |-> "standard",
                               rangeData |-> [is |-> "undefined", run |-> 0]]] :
                     refAlignment \in Alignments, camAlignment \in Alignments}

(* App.setLUTMode(mode), the handler of the two mode buttons *)
SetLUTMode(mode) ==
    /\ probe.kind = "generateLUT"
    /\ probe' = [probe EXCEPT !.lutMode = mode]
    /\ UNCHANGED buildVars

(* App.generateLUT from its call to its await without the alignment check *)
GenerateLUTUnchecked ==
    /\ probe.kind = "generateLUT"
    /\ probe.at = "idle"
    /\ probe.runs < MaxRuns
    /\ LET number == probe.runs + 1
       IN probe' =
            IF \E t \in ImageTypes : ~validateAlignment(probe.alignments[t])
            THEN [probe EXCEPT !.runs = number, !.status = "error"]
            ELSE [probe EXCEPT
                     !.runs = number,
                     !.status = "processing",
                     !.analysisData = [is |-> "object", run |-> number],
                     !.rangeData = IF probe.lutMode = "rangeAware"
                                   THEN [is |-> "object", run |-> number] ELSE @,
                     !.run = [number |-> number, mode |-> probe.lutMode],
                     !.at = "await"]
    /\ UNCHANGED buildVars

(* App.generateLUT from its call to its await: the alignment check, the    *)
(* two calls of extractColorPatches, which throw for an alignment that is  *)
(* not valid (the error is caught and shown), state.analysisData, and the  *)
(* range analysis in the mode rangeAware                                   *)
GenerateLUT ==
    /\ probe.kind = "generateLUT"
    /\ probe.at = "idle"
    /\ probe.runs < MaxRuns
    /\ LET number == probe.runs + 1
       IN probe' =
            IF \E t \in ImageTypes : probe.alignments[t].isComplete # "true"
            THEN [probe EXCEPT !.runs = number, !.status = "alignmentIncomplete"]
            ELSE IF \E t \in ImageTypes : ~validateAlignment(probe.alignments[t])
            THEN [probe EXCEPT !.runs = number, !.status = "error"]
            ELSE [probe EXCEPT
                     !.runs = number,
                     !.status = "processing",
                     !.analysisData = [is |-> "object", run |-> number],
                     !.rangeData = IF probe.lutMode = "rangeAware"
                                   THEN [is |-> "object", run |-> number] ELSE @,
                     !.run = [number |-> number, mode |-> probe.lutMode],
                     !.at = "await"]
    /\ UNCHANGED buildVars

(* App.generateLUT after its await: options and the call of                *)
(* generateWithAlgorithm, which throws in the mode rangeAware without      *)
(* range data (the error is caught and shown)                              *)
GenerateResume ==
    /\ probe.kind = "generateLUT"
    /\ probe.at = "await"
    /\ LET rangeData == IF probe.lutMode = "rangeAware" THEN probe.rangeData
                        ELSE [is |-> "undefined", run |-> 0]
       IN probe' = [probe EXCEPT
                       !.built = [run |-> probe.run.number,
                                  algorithm |-> probe.lutMode,
                                  rangeData |-> rangeData],
                       !.status = IF probe.lutMode = "rangeAware"
                                     /\ rangeData = [is |-> "null", run |-> 0]
                                  THEN "error" ELSE "lutGenerated",
                       !.at = "idle"]
    /\ UNCHANGED buildVars

NextGenerate ==
    \/ \E mode \in {"standard", "rangeAware"} : SetLUTMode(mode)
    \/ GenerateLUT
    \/ GenerateResume

SpecGenerate == InitGenerate /\ [][NextGenerate]_vars

----------------------------------------------------------------------------
(* Properties of a build (generateWithAlgorithm), under Spec *)

(* a build the specification allows: a registered strategy, range data for *)
(* rangeAware, non-empty lists of equal length, size at least 2            *)
ValidBuild ==
    /\ algorithm \in RegisteredNames
    /\ (algorithm = "rangeAware" => options.present)
    /\ refColors # <<>>
    /\ Len(refColors) = Len(camColors)
    /\ lutSize >= 2

InUnit(c) == \A i \in 1..3 : c[i] # NaN /\ c[i] >= 0 /\ c[i] <= OUT

(* every patch colour has its channels in [0,1] *)
ValidColours ==
    /\ \A i \in 1..Len(refColors) : isValidColor(refColors[i])
    /\ \A i \in 1..Len(camColors) : isValidColor(camColors[i])

(* C1: for each of the four strategies, non-empty lists of equal length    *)
(* and size >= 2, the build does not throw, never holds more than size^3   *)
(* entries, and returns a list of exactly size^3 colours                   *)
C1_LengthIsSizeCubed ==
    (pc # "idle" /\ ValidBuild) =>
        /\ pc # "thrown"
        /\ Len(lut) <= lutSize * lutSize * lutSize
        /\ (pc = "returned" =>
              /\ lutData.returned
              /\ Len(lutData.value) = lutSize * lutSize * lutSize)

C1_Witness ==
    /\ pc = "returned"
    /\ ValidBuild
    /\ lutSize = MaxSize
    /\ Len(lutData.value) = MaxSize * MaxSize * MaxSize

C3_LatticeOrder ==
    [][/\ (pc = "loop" /\ pc' = "loop" /\ lutSize >= 2) =>
             LET n == Len(lut)
                 node == <<((n % lutSize) * ONE) \div (lutSize - 1),
                           (((n \div lutSize) % lutSize) * ONE) \div (lutSize - 1),
                           ((n \div (lutSize * lutSize)) * ONE) \div (lutSize - 1)>>
             IN /\ n < lutSize * lutSize * lutSize
                /\ lut' = Append(lut, interpolateNode(algorithm, node, refColors,
                                                      camColors, options).color)
       /\ (pc = "loop" /\ pc' = "returned") => lutData'.value = lut]_vars

C3_Witness ==
    /\ pc = "returned"
    /\ lutSize = 3
    /\ Len(lutData.value) = 27
    /\ lutData.value[2] # lutData.value[4]
    /\ lutData.value[2] # lutData.value[10]
    /\ lutData.value[4] # lutData.value[10]

(* C4: a build with a strategy name that is none of standard, rangeAware,  *)
(* tetrahedral, perceptual fails with the unknown-strategy error before    *)
(* any interpolation, and returns no LUT                                   *)
C4_UnknownStrategyRejected ==
    (pc \notin {"idle", "lookup"} /\ algorithm \notin RegisteredNames) =>
        /\ pc = "thrown"
        /\ error = "Unknown LUT algorithm"
        /\ ~touched
        /\ lut = <<>>
        /\ ~lutData.returned

(* C5: a rangeAware build without range data fails with the missing range  *)
(* data error before any node is computed and before the patch lists are   *)
(* touched, and returns no LUT                                             *)
C5_MissingRangeData ==
    (pc \notin {"idle", "lookup", "generate"} /\ algorithm = "rangeAware"
        /\ ~options.present) =>
        /\ pc = "thrown"
        /\ error = "Range data required"
        /\ ~touched
        /\ lut = <<>>
        /\ ~lutData.returned

C5_Witness ==
    /\ pc = "thrown"
    /\ algorithm = "rangeAware"
    /\ ~options.present
    /\ refColors # <<>>
    /\ lutSize >= 2

(* C6: for every strategy, a build whose reference and camera lists differ *)
(* in length, or are both empty, ends with an error and not with a LUT     *)
(* (stated for builds whose other arguments are in order)                  *)
C6_BadListsRejected ==
    (pc \in {"returned", "thrown"} /\ algorithm \in RegisteredNames
        /\ (algorithm = "rangeAware" => options.present) /\ lutSize >= 2
        /\ (Len(refColors) # Len(camColors) \/ refColors = <<>>)) =>
        /\ pc = "thrown"
        /\ ~lutData.returned

(* C7: for every strategy, a build with a size below 2 ends with an error  *)
(* and not with a LUT, whatever the other arguments (stated for builds     *)
(* whose other arguments are in order, the case that cannot fail for       *)
(* another reason)                                                         *)
C7_SmallSizeRejected ==
    (pc \in {"returned", "thrown"} /\ algorithm \in RegisteredNames
        /\ (algorithm = "rangeAware" => options.present)
        /\ refColors # <<>> /\ Len(refColors) = Len(camColors)
        /\ lutSize < 2) =>
        /\ pc = "thrown"
        /\ ~lutData.returned

(* a build that has to fail: unknown strategy, missing range data,         *)
(* mismatched list lengths, size below 2                                   *)
MustFail ==
    \/ algorithm \notin RegisteredNames
    \/ (algorithm = "rangeAware" /\ ~options.present)
    \/ Len(refColors) # Len(camColors)
    \/ lutSize < 2

(* C8: whenever a build has to fail, the caller receives an error and no   *)
(* LUT at all: no list, complete or holding only some of the size^3        *)
(* nodes, is returned or kept                                              *)
C8_FailureReturnsNoLUT ==
    (pc \in {"returned", "thrown"} /\ MustFail) =>
        /\ pc = "thrown"
        /\ error # "none"
        /\ ~lutData.returned
        /\ lutData.value = <<>>

(* the number of malformed colours in the two lists *)
MalformedCount ==
    Cardinality({i \in 1..Len(refColors) : ~isValidColor(refColors[i])})
    + Cardinality({i \in 1..Len(camColors) : ~isValidColor(camColors[i])})

(* C11: a build that is valid but for a single malformed patch colour (a   *)
(* channel outside [0,1] or not a number) in the reference or the camera   *)
(* list does not abort, and returns a complete LUT with all channels in    *)
(* [0,1]                                                                   *)
C11_MalformedPatchTolerated ==
    (pc \in {"returned", "thrown"} /\ ValidBuild /\ MalformedCount = 1) =>
        /\ pc = "returned"
        /\ Len(lutData.value) = lutSize * lutSize * lutSize
        /\ \A n \in 1..Len(lutData.value) : InUnit(lutData.value[n])

----------------------------------------------------------------------------
(* Properties of single calls, under SpecProbe *)

(* the distance the search of probe.kind gives the colour at index i *)
ProbeDistance(i) ==
    CASE probe.kind = "findNearestNeighbors" ->
            colorDistance(probe.target, probe.colors[i])
      [] probe.kind = "findNearestNeighborsWithLuminance" ->
            colorDistance(probe.target, probe.colors[i])
            + 2 * Abs(getLuminance(probe.target) - getLuminance(probe.colors[i]))
      [] probe.kind = "findNearestLabNeighbors" ->
            labDistance(rgbToLab(probe.target), rgbToLab(probe.colors[i]))

(* every other colour of the list is the target or at least 0.05 away *)
OthersApart ==
    \A j \in 1..Len(probe.colors) :
        \/ probe.colors[j] = probe.target
        \/ colorDistance(probe.colors[j], probe.target) >= 50

(* C9 as stated: with identical reference and camera lists, interpolateColor *)
(* at a colour c of the reference list returns exactly c, however close    *)
(* the other reference colours lie                                         *)
C9_ExactAtReferenceColour ==
    (probe.kind = "interpolateColor" /\ probe.done /\ probe.cams = probe.colors) =>
        /\ ~probe.result.threw
        /\ \A i \in 1..3 : probe.result.color[i] = probe.target[i] * FINE

(* C9: with identical reference and camera lists, interpolateColor at a    *)
(* colour c of the reference list returns c to within 0.0001 in every      *)
(* channel, provided every other reference colour equals c or lies at      *)
(* least 0.05 from it                                                      *)
C9_CloseAtReferenceColour ==
    (probe.kind = "interpolateColor" /\ probe.done /\ probe.cams = probe.colors
        /\ OthersApart) =>
        /\ ~probe.result.threw
        /\ \A i \in 1..3 :
              /\ probe.result.color[i] # NaN
              /\ Abs(probe.result.color[i] - probe.target[i] * FINE) <= 100

C9_Witness ==
    /\ probe.kind = "interpolateColor"
    /\ probe.done
    /\ probe.cams = probe.colors
    /\ OthersApart
    /\ \E j \in 1..Len(probe.colors) : probe.colors[j] # probe.target
    /\ \E i \in 1..3 : probe.result.color[i] # probe.target[i] * FINE

(* C10: the neighbour search of every strategy, over N >= 1 reference      *)
(* colours, returns min(4, N) distinct indices of the list, each with its  *)
(* distance, in order of non-decreasing distance, and no colour left out   *)
(* is closer than a colour returned                                        *)
C10_NearestNeighbours ==
    (probe.kind \in NeighborKinds /\ probe.done) =>
        LET neighbors == probe.result
            N == Len(probe.colors)
            chosen == {neighbors[j].index : j \in 1..Len(neighbors)}
        IN /\ Len(neighbors) = Min2(4, N)
           /\ \A j \in 1..Len(neighbors) :
                 /\ neighbors[j].index \in 1..N
                 /\ neighbors[j].distance = ProbeDistance(neighbors[j].index)
           /\ \A j, k \in 1..Len(neighbors) :
                 j < k => /\ neighbors[j].index # neighbors[k].index
                          /\ neighbors[j].distance <= neighbors[k].distance
           /\ \A i \in (1..N) \ chosen : \A j \in 1..Len(neighbors) :
                 ProbeDistance(i) >= neighbors[j].distance

C10_Witness ==
    /\ probe.kind \in NeighborKinds
    /\ probe.done
    /\ Len(probe.colors) = 5
    /\ Len(probe.result) = 4
    /\ probe.result[1].index = 5
    /\ probe.result[1].distance < probe.result[2].distance
    /\ probe.result[2].distance < probe.result[3].distance
    /\ probe.result[3].distance < probe.result[4].distance

(* colorDistance * 1.0 + |targetLum - neighbourLuminance| * 2.0 of the     *)
(* reference colour i, targetLum being the luminance of the probed colour  *)
(* mapped through scale and offset                                         *)
MappedDistance(i) ==
    LET rangeData == RangeDataFor(probe.colors, probe.cams)
    IN colorDistance(probe.target, probe.colors[i]) * 1
       + Abs(mappedLuminance(probe.target, rangeData) - rangeData.refLuminances[i]) * 2

(* C20: in the Range-Aware strategy the neighbours are the k = 4 reference *)
(* colours that minimise colorDistance * 1.0 + |targetLum -                *)
(* neighbourLuminance| * 2.0, where targetLum is the input luminance after *)
(* the mapping through scale and offset: no colour left out has a smaller  *)
(* such distance than a colour chosen.                                     *)
C20_NeighboursByMappedLuminance ==
    (probe.kind = "rangeMappingNeighbors" /\ probe.done) =>
        LET neighbors == probe.result
            chosen == {neighbors[j].index : j \in 1..Len(neighbors)}
        IN /\ Len(neighbors) = Min2(4, Len(probe.colors))
           /\ \A i \in (1..Len(probe.colors)) \ chosen : \A j \in chosen :
                 MappedDistance(i) >= MappedDistance(j)

(* the tolerance 1e-6 as a number of fourteen decimals *)
RoundTripTolerance == [hi |-> 10, lo |-> 0]

(* C16: for every rgb in [0,1]^3, labToRgb(rgbToLab(rgb)) differs from rgb *)
(* by at most 1e-3 per channel and xyzToRgb(rgbToXyz(rgb)) differs from    *)
(* rgb by at most 1e-6 per channel.  Checked for the conversion to XYZ and *)
(* back at the corners of the cube: each channel of the result, which lies *)
(* between its bounds low and high, is within 1e-6 of the channel it came  *)
(* from.                                                                   *)
C16_RoundTripWithinTolerance ==
    (probe.kind = "xyzRoundTrip" /\ probe.done) =>
        \A i \in 1..3 :
            LET input == [hi |-> (probe.target[i] \div ONE) * Wide, lo |-> 0]
            IN /\ WideLeq(probe.result[i].low, WideAdd(input, RoundTripTolerance))
               /\ WideLeq(WideSub(input, RoundTripTolerance), probe.result[i].high)

----------------------------------------------------------------------------
(* Properties of the statistics of utils, under SpecStats *)

StatDone(kind) == probe.kind = kind /\ probe.done

(* C12: median, MAD, standard deviation and coefficient of variation of an *)
(* empty sequence fail with an empty-input error; none of them returns 0.  *)
C12_EmptyInputFails ==
    (probe.done /\ probe.values = <<>>) => probe.result.threw

IsConstant(values) == \A i, j \in 1..Len(values) : values[i] = values[j]

(* C13 as stated: the coefficient of variation is the standard deviation   *)
(* divided by the mean when the mean is not 0 and 0 when the mean is 0,    *)
(* and that of a constant non-empty sequence of a value x # 0 is 0.        *)
C13_ConstantHasZeroCV ==
    (StatDone("calculateCV") /\ probe.values # <<>>) =>
        /\ MeanOf(probe.values) # 0 =>
              probe.result.value =
                  MulDiv(calculateStandardDeviation(probe.values), OUT,
                         MeanOf(probe.values))[1]
        /\ MeanOf(probe.values) = 0 => probe.result.isZero
        /\ (IsConstant(probe.values) /\ probe.values[1] # 0) => probe.result.isZero

(* C13, amended: the coefficient of variation is the standard deviation    *)
(* divided by the mean when the mean is not 0 and 0 when the mean is 0;    *)
(* that of a constant non-empty sequence of a value x # 0 is 0 up to the   *)
(* rounding of the mean, and exactly 0 for one or two values.              *)
C13_CVIsDeviationOverMean ==
    (StatDone("calculateCV") /\ probe.values # <<>>) =>
        /\ MeanOf(probe.values) # 0 =>
              /\ probe.result.value =
                     MulDiv(calculateStandardDeviation(probe.values), OUT,
                            MeanOf(probe.values))[1]
              /\ probe.result.isZero = calculateStandardDeviationIsZero(probe.values)
        /\ MeanOf(probe.values) = 0 =>
              probe.result.value = 0 /\ probe.result.isZero
        /\ (IsConstant(probe.values) /\ probe.values[1] # 0) =>
              /\ probe.result.value = 0
              /\ Len(probe.values) <= 2 => probe.result.isZero

(* a constant sequence of three or more values x # 0 whose coefficient of  *)
(* variation is 0 in fixed point and not 0 in doubles                      *)
C13_Witness ==
    /\ StatDone("calculateCV")
    /\ Len(probe.values) >= 3
    /\ IsConstant(probe.values)
    /\ probe.values[1] # 0
    /\ probe.result.value = 0
    /\ ~probe.result.isZero

----------------------------------------------------------------------------
(* Properties of rangeAnalyzer, under SpecRange *)

RangeDone(kind) == probe.kind = kind /\ probe.done

(* the two statistics are those of one list *)
SameStats == probe.refRange = probe.camRange

(* C14 as stated: the mapping of a RangeStats s of a non-empty patch list  *)
(* to itself has rangeRatio 1 and luminanceOffset 0, also when all the     *)
(* patches have the same luminance (robust span 0).                        *)
C14_SelfMappingIsIdentity ==
    (RangeDone("calculateRangeMapping") /\ SameStats) =>
        probe.mapping.rangeRatio = ONE /\ probe.mapping.luminanceOffset = 0

(* C14, amended: the mapping of s to itself has rangeRatio 1 and           *)
(* luminanceOffset 0 if the robust span of s is at least 0.001; if the     *)
(* robust span is 0 it has rangeRatio 0 and luminanceOffset robustMin.     *)
C14_SelfMappingBySpan ==
    (RangeDone("calculateRangeMapping") /\ SameStats) =>
        /\ probe.refRange.range >= 1 =>
              probe.mapping.rangeRatio = ONE /\ probe.mapping.luminanceOffset = 0
        /\ probe.refRange.range = 0 =>
              /\ probe.mapping.rangeRatio = 0
              /\ probe.mapping.luminanceOffset = probe.refRange.robustMin

(* a list of three or more patches with a robust span above 0.001 and a    *)
(* robust minimum above 0 was mapped to itself                             *)
C14_Witness ==
    /\ RangeDone("calculateRangeMapping")
    /\ SameStats
    /\ Len(probe.ref) >= 3
    /\ probe.refRange.range > 1
    /\ probe.refRange.robustMin > 0
    /\ probe.mapping.rangeRatio = ONE

(* C15 as stated: the compatibility of a RangeStats s of a non-empty patch *)
(* list with itself has score 1.0 and no issues; the span, mean and        *)
(* skewness checks all pass.                                               *)
C15_SelfCompatibilityIsOne ==
    (RangeDone("assessRangeCompatibility") /\ SameStats) =>
        /\ probe.compatibility.score = ONE
        /\ probe.compatibility.issues = <<>>
        /\ probe.compatibility.spanSimilar
        /\ probe.compatibility.meanSimilar
        /\ probe.compatibility.distributionSimilar

(* C15, amended: the mean and skewness checks of s against itself pass;    *)
(* if the robust span of s is at least 0.001 the span check passes too,    *)
(* the score is 1.0 and there are no issues; if the robust span is 0 the   *)
(* span check fails, the score is 0.6 and the one issue is 'Camera range   *)
(* much smaller'.                                                          *)
C15_SelfCompatibilityBySpan ==
    (RangeDone("assessRangeCompatibility") /\ SameStats) =>
        /\ probe.compatibility.meanSimilar
        /\ probe.compatibility.distributionSimilar
        /\ probe.refRange.range >= 1 =>
              /\ probe.compatibility.spanSimilar
              /\ probe.compatibility.score = ONE
              /\ probe.compatibility.issues = <<>>
        /\ probe.refRange.range = 0 =>
              /\ ~probe.compatibility.spanSimilar
              /\ probe.compatibility.score = 6 * (ONE \div 10)
              /\ probe.compatibility.issues = <<"Camera range much smaller">>

(* a list of three or more patches of differing luminance was assessed     *)
(* against itself and got the score 1.0                                    *)
C15_Witness ==
    /\ RangeDone("assessRangeCompatibility")
    /\ SameStats
    /\ Len(probe.ref) >= 3
    /\ probe.refRange.range > 1
    /\ probe.compatibility.score = ONE

----------------------------------------------------------------------------
(* Statelessness of a build, under Spec *)

(* C18: a build with any strategy leaves its inputs unchanged (refColors,  *)
(* camColors and the range mapping with its luminances keep their values   *)
(* and order), and the engine keeps no state between calls, so that two    *)
(* builds with equal inputs return equal LUTs.  Every step from the call   *)
(* to the return leaves the inputs as they are; a step that changes lut    *)
(* appends the value the interpolator gives for the inputs and the         *)
(* coordinates of that index and changes no earlier entry; the value       *)
(* returned is lut; and the step that ends the call leaves nothing behind. *)
C18_BuildIsStateless ==
    [][/\ (pc # "idle" /\ pc' # "idle") =>
             /\ UNCHANGED <<algorithm, refColors, camColors, lutSize, options>>
             /\ (lut' # lut /\ lut' # <<>>) =>
                   LET n == Len(lut) + 1
                       at == NodeCoordinates(n, lutSize)
                   IN lut' = Append(lut,
                                 interpolateNode(algorithm,
                                     inputColorAt(at[1], at[2], at[3], lutSize),
                                     refColors, camColors, options).color)
             /\ pc' = "returned" => lutData'.value = lut
       /\ (pc # "idle" /\ pc' = "idle") =>
             /\ lut' = <<>>
             /\ lutData' = NoLUT
             /\ loopB' = 0 /\ loopG' = 0 /\ loopR' = 0]_vars

(* a range-aware build of three or more patches has returned a lattice of  *)
(* more than one colour and its inputs are those it was called with        *)
C18_Witness ==
    /\ pc = "returned"
    /\ algorithm = "rangeAware"
    /\ refColors = ChartRef
    /\ camColors = ChartCam
    /\ options = RangeDataFor(ChartRef, ChartCam)
    /\ Len(lutData.value) = lutSize * lutSize * lutSize
    /\ \E n, m \in 1..Len(lutData.value) : lutData.value[n] # lutData.value[m]

----------------------------------------------------------------------------
(* Properties of the nodes computed by workers, under SpecWorkers *)

----------------------------------------------------------------------------
(* Properties of the patch extraction, under SpecExtract *)

(* C19: for any two valid 9-marker alignments, extractColorPatches returns *)
(* for the reference and for the camera image the same number of patches,  *)
(* rows * cols minus the 9 marker cells, as many quality scores as         *)
(* patches, and the same skippedIndices; patch i of the reference and      *)
(* patch i of the camera come from the same grid cell.                     *)
C19_PatchesCorrespond ==
    (probe.kind = "extractColorPatches" /\ probe.at = "returned") =>
        /\ Len(probe.refResult.patches) = GridRows * GridCols - 9
        /\ Len(probe.camResult.patches) = GridRows * GridCols - 9
        /\ Len(probe.refResult.qualityScores) = Len(probe.refResult.patches)
        /\ Len(probe.camResult.qualityScores) = Len(probe.camResult.patches)
        /\ probe.refResult.skippedIndices = probe.camResult.skippedIndices
        /\ Len(probe.refResult.skippedIndices) = 9
        /\ probe.refResult.patchLocations = probe.camResult.patchLocations

(* both extractions have returned, with different alignments and with      *)
(* patches that differ between the two images                              *)
C19_Witness ==
    /\ probe.kind = "extractColorPatches"
    /\ probe.at = "returned"
    /\ probe.alignments.reference.markers # probe.alignments.camera.markers
    /\ probe.refResult.patches # probe.camResult.patches
    /\ Len(probe.camResult.patches) = GridRows * GridCols - 9
    /\ \E i \in 1..Len(probe.refResult.qualityScores) :
          probe.refResult.qualityScores[i] > 0

(* C21: the range quality score starts at 1.0 and loses 0.3 when the       *)
(* robust span (95th minus 5th percentile) is not above 0.3, 0.2 when the  *)
(* mean is not inside (0.2, 0.8), 0.3 for clipping and 0.2 for poor        *)
(* uniformity; it is floored at 0 and lies in [0, 1].                      *)
C21_ScoreByRobustSpan ==
    RangeDone("analyzeLuminanceRange") =>
        LET deductions ==
                (IF probe.refRange.range > (3 * ONE) \div 10 THEN 0
                 ELSE (3 * ONE) \div 10)
                + (IF probe.quality.isWellCentered THEN 0 ELSE (2 * ONE) \div 10)
                + (IF probe.quality.hasClipping THEN (3 * ONE) \div 10 ELSE 0)
                + (IF probe.quality.poorUniformity THEN (2 * ONE) \div 10 ELSE 0)
        IN /\ probe.quality.score = Max2(0, ONE - deductions)
           /\ probe.quality.score >= 0
           /\ probe.quality.score <= ONE

(* C22: for a non-empty patch list of length N, robustMin and robustMax    *)
(* are the entries floor(0.05 * N) and floor(0.95 * N) of the ascending    *)
(* luminances, both indices are within 0..N-1, min <= robustMin <=         *)
(* robustMax <= max, and range = robustMax - robustMin is not negative.    *)
C22_RobustBoundsOrdered ==
    RangeDone("analyzeLuminanceRange") =>
        LET stats == probe.refRange
            n == Len(probe.ref)
            low == (5 * n) \div 100
            high == (95 * n) \div 100
        IN /\ n > 0 /\ Len(stats.luminances) = n
           /\ low \in 0..(n - 1) /\ high \in 0..(n - 1)
           /\ Cardinality({i \in 1..n : stats.luminances[i] < stats.robustMin}) <= low
           /\ Cardinality({i \in 1..n : stats.luminances[i] <= stats.robustMin}) > low
           /\ Cardinality({i \in 1..n : stats.luminances[i] < stats.robustMax}) <= high
           /\ Cardinality({i \in 1..n : stats.luminances[i] <= stats.robustMax}) > high
           /\ \A i \in 1..n : stats.min <= stats.luminances[i]
                                /\ stats.luminances[i] <= stats.max
           /\ stats.min <= stats.robustMin
           /\ stats.robustMin <= stats.robustMax
           /\ stats.robustMax <= stats.max
           /\ stats.range = stats.robustMax - stats.robustMin
           /\ stats.range >= 0

(* a list of twenty patches has been analysed whose robust bounds are not  *)
(* its smallest and largest luminance                                      *)
C22_Witness ==
    /\ RangeDone("analyzeLuminanceRange")
    /\ Len(probe.ref) = 20
    /\ probe.refRange.min < probe.refRange.robustMin
    /\ probe.refRange.robustMin < probe.refRange.robustMax

(* C23: in the Tetrahedral strategy, for every non-empty reference set,    *)
(* the output at every node is a convex combination of the camera colours  *)
(* of the selected neighbours (weights (T - d_i) / (3 * T), T the sum of   *)
(* their distances): each output channel lies between the smallest and     *)
(* the largest value of that channel among those camera colours.           *)
C23_TetrahedralIsConvex ==
    (algorithm = "tetrahedral" /\ pc \in {"loop", "returned"}
     /\ ValidBuild /\ ValidColours) =>
        \A n \in 1..Len(lut) :
            LET at == NodeCoordinates(n, lutSize)
                neighbors == findNearestNeighbors(
                                 inputColorAt(at[1], at[2], at[3], lutSize),
                                 refColors, NeighborCount)
                selected == {neighbors[j].index : j \in 1..Len(neighbors)}
            IN \A i \in 1..3 :
                  /\ \E j \in selected : camColors[j][i] * FINE <= lut[n][i]
                  /\ \E j \in selected : camColors[j][i] * FINE >= lut[n][i]

----------------------------------------------------------------------------
(* Properties of the alignment, under SpecAlign *)

(* C25: after acceptAlignment has succeeded for an image type,             *)
(* state.alignments[imageType] holds the nine placed markers, isComplete   *)
(* is true and quality is the assessment of calculateAlignmentQuality, not *)
(* null, and state.currentAlignment is reset to its idle value.            *)
C25_AcceptStoresQuality ==
    [][AcceptAlignment =>
          LET imageType == probe.currentAlignment.imageType
          IN /\ probe'.alignments[imageType].markers = probe.currentAlignment.markers
             /\ Len(probe'.alignments[imageType].markers) = MarkerCount
             /\ probe'.alignments[imageType].isComplete
             /\ probe'.alignments[imageType].quality # "null"
             /\ probe'.currentAlignment = IdleAlignment]_vars

(* C26: resetting the alignment in progress for one image type (Reset      *)
(* button, Ctrl+R or Escape) leaves the accepted alignment of the other    *)
(* image type unchanged: its markers and its isComplete flag.              *)
C26_ResetKeepsOtherAlignment ==
    [][(\E key \in {"Ctrl+R", "Escape"} : ResetAlignment(key)) =>
          \A t \in ImageTypes \ {probe.currentAlignment.imageType} :
              /\ probe'.alignments[t].markers = probe.alignments[t].markers
              /\ probe'.alignments[t].isComplete = probe.alignments[t].isComplete]_vars

(* C27: after any sequence of startAlignment, startPlacingMarkers, canvas  *)
(* clicks, undoLastMarker, resetAlignment and acceptAlignment, the         *)
(* alignment in progress has at most nine markers, currentMarkerIndex is   *)
(* their number, and the k-th marker placed has index k (from 0).          *)
C27_MarkerIndexIsCount ==
    probe.kind = "alignment" =>
        LET current == probe.currentAlignment
        IN /\ Len(current.markers) <= MarkerCount
           /\ current.currentMarkerIndex = Len(current.markers)
           /\ \A k \in 1..Len(current.markers) : current.markers[k].index = k - 1

(* nine markers are placed, one of them after an undo: a marker index      *)
(* above 0 was recorded twice in a row                                     *)
C27_Witness ==
    /\ probe.kind = "alignment"
    /\ Len(probe.currentAlignment.markers) = MarkerCount
    /\ ~probe.currentAlignment.isPlacing
    /\ \E i \in 1..(Len(probe.alignmentSteps) - 1) :
          /\ probe.alignmentSteps[i].index > 0
          /\ probe.alignmentSteps[i + 1].index = probe.alignmentSteps[i].index

(* C28: in every reachable state, currentAlignment.isComplete implies nine *)
(* markers in currentAlignment, and state.alignments[t].isComplete implies *)
(* nine markers in state.alignments[t], for both image types.              *)
C28_CompleteHasNineMarkers ==
    probe.kind = "alignment" =>
        /\ probe.currentAlignment.isComplete =>
              Len(probe.currentAlignment.markers) = MarkerCount
        /\ \A t \in ImageTypes :
              probe.alignments[t].isComplete =>
                  Len(probe.alignments[t].markers) = MarkerCount

(* C29: state.history.alignmentSteps never holds more than maxUndoHistory  *)
(* entries after any sequence of marker additions and undos.               *)
C29_HistoryIsBounded ==
    probe.kind = "alignment" => Len(probe.alignmentSteps) <= MaxUndoHistory

(* the history is full and its oldest entry is not the first marker ever   *)
(* placed, whose index is 0: an entry was dropped                          *)
C29_Witness ==
    /\ probe.kind = "alignment"
    /\ Len(probe.alignmentSteps) = MaxUndoHistory
    /\ probe.alignmentSteps[1].index # 0

----------------------------------------------------------------------------
(* Properties of App.generateLUT, under SpecGenerate *)

(* C24: unless both state.alignments.reference.isComplete and              *)
(* state.alignments.camera.isComplete hold when App.generateLUT is         *)
(* invoked, it does not reach the patch extraction, the range analysis or  *)
(* the LUT generation and leaves state.analysisData and state.rangeData as *)
(* they are; it only reports the alignment-incomplete error.               *)
C24_IncompleteAlignmentStops ==
    [][(GenerateLUT
        /\ \E t \in ImageTypes : probe.alignments[t].isComplete # "true") =>
          /\ probe'.status = "alignmentIncomplete"
          /\ probe'.at = "idle"
          /\ probe'.analysisData = probe.analysisData
          /\ probe'.rangeData = probe.rangeData
          /\ probe'.built = probe.built]_vars

(* generateLUT was invoked with nine valid markers in both alignments, the *)
(* one of the camera not complete, and reported it                         *)
C24_Witness ==
    /\ probe.kind = "generateLUT"
    /\ probe.status = "alignmentIncomplete"
    /\ probe.alignments.reference.isComplete = "true"
    /\ probe.alignments.camera.isComplete = "false"
    /\ \A t \in ImageTypes : Len(probe.alignments[t].markers) = MarkerCount
    /\ probe.analysisData = [is |-> "null", run |-> 0]

(* C30: a run of App.generateLUT builds its LUT with the mode that was     *)
(* selected when the run started and, in the mode rangeAware, with the     *)
(* range data computed in that run, whatever setLUTMode calls happen       *)
(* during its await.                                                       *)
C30_RunUsesItsOwnMode ==
    (probe.kind = "generateLUT" /\ probe.built.run > 0) =>
        /\ probe.built.run = probe.run.number
        /\ probe.built.algorithm = probe.run.mode
        /\ probe.built.algorithm = "rangeAware" =>
              probe.built.rangeData = [is |-> "object", run |-> probe.built.run]

====
